---- MODULE Spec2Model ----
(***************************************************************************)
(* Model of the PR agent pipeline (mark-hingston/pr-agent).                *)
(*                                                                         *)
(* Text is modelled as a sequence of tokens.  A sentinel string is one     *)
(* token; "n" is a white-space character (newline), "u" a non-white-space  *)
(* character written by the user, "-" one dash of the divider, and "X" /   *)
(* "Y" the rendered markdown of a generated summary.                       *)
(***************************************************************************)
EXTENDS Integers, Sequences, FiniteSets, TLC

\* ------------------------------------------------------------------ bounds
MaxLen == 3            \* longest initial description, in tokens
MaxDocRuns == 3        \* successive document-mode runs in SpecDoc
MaxStarts == 3         \* runs started over one behaviour of Spec
MaxInitComments == 2   \* comments on the change before the first run
MaxClock == 2          \* largest creation time the host hands out
PerPage == 2           \* page size of the host's list call (GitHub: 30)
MaxSections == 2       \* file sections of a diff in SpecFilter
MaxBudget == 72        \* largest MAX_DIFF_CHARS tried in SpecTrunc

\* --------------------------------------------------------------- constants
GITHUB_ACTIONS_BOT_LOGIN == "github-actions[bot]"
GITHUB_BOT_COMMENT_MARKER == "REVIEW-COMMENT"
GITHUB_SUMMARY_START_MARKER == "BEGIN"
GITHUB_SUMMARY_END_MARKER == "END"

\* ------------------------------------------------------------ text helpers
IsWhiteSpace(t) == t = "n"

\* String.prototype.indexOf on tokens, 1-based; 0 stands for JavaScript's -1.
RECURSIVE IndexFrom(_, _, _)
IndexFrom(s, t, i) ==
    IF i > Len(s) THEN 0
    ELSE IF s[i] = t THEN i
    ELSE IndexFrom(s, t, i + 1)

indexOf(s, t) == IndexFrom(s, t, 1)

\* String.prototype.trim: drop leading and trailing white space.
RECURSIVE TrimStart(_)
TrimStart(s) ==
    IF s = <<>> THEN <<>>
    ELSE IF IsWhiteSpace(Head(s)) THEN TrimStart(Tail(s))
    ELSE s

RECURSIVE TrimEnd(_)
TrimEnd(s) ==
    IF s = <<>> THEN <<>>
    ELSE IF IsWhiteSpace(s[Len(s)]) THEN TrimEnd(SubSeq(s, 1, Len(s) - 1))
    ELSE s

trim(s) == TrimEnd(TrimStart(s))

\* substring(0, idx) with idx the 1-based position of the first excluded token
substringBefore(s, idx) == SubSeq(s, 1, idx - 1)

\* formatSummaryToMarkdown: the rendered markdown of a summary object.
formatSummaryToMarkdown(summaryResult) == <<summaryResult>>

\* ------------------------------------------------- updateSummaryStep, text
\* userContentOf without the test that END follows BEGIN.
userContentOf_noOrderCheck(originalPrDescription) ==
    LET markerStartIdx == indexOf(originalPrDescription, GITHUB_SUMMARY_START_MARKER)
        markerEndIdx == indexOf(originalPrDescription, GITHUB_SUMMARY_END_MARKER)
    IN  IF markerStartIdx # 0 /\ markerEndIdx # 0
        THEN trim(substringBefore(originalPrDescription, markerStartIdx))
        ELSE trim(originalPrDescription)

\* The part of the description kept as user content.
userContentOf(originalPrDescription) ==
    LET markerStartIdx == indexOf(originalPrDescription, GITHUB_SUMMARY_START_MARKER)
        markerEndIdx == indexOf(originalPrDescription, GITHUB_SUMMARY_END_MARKER)
    IN  IF markerStartIdx # 0 /\ markerEndIdx # 0 /\ markerEndIdx > markerStartIdx
        THEN trim(substringBefore(originalPrDescription, markerStartIdx))
        ELSE trim(originalPrDescription)

separatorOf(userContent) ==
    IF userContent # <<>> THEN <<"n", "n", "-", "-", "-", "n", "n">> ELSE <<>>

\* finalBody with the block written as BEGIN, summary, END on one line.
finalBody_noLineBreaks(originalPrDescription, newMarkdownSummary) ==
    LET userContent == userContentOf(originalPrDescription)
    IN  trim(userContent \o separatorOf(userContent)
             \o <<GITHUB_SUMMARY_START_MARKER>>
             \o newMarkdownSummary
             \o <<GITHUB_SUMMARY_END_MARKER>>)

\* The body handed to updatePrDescription.
finalBody(originalPrDescription, newMarkdownSummary) ==
    LET userContent == userContentOf(originalPrDescription)
    IN  trim(userContent \o separatorOf(userContent)
             \o <<GITHUB_SUMMARY_START_MARKER, "n">>
             \o newMarkdownSummary
             \o <<"n", GITHUB_SUMMARY_END_MARKER>>)

\* ------------------------------------------------------------------ state
Slots == {1, 2}         \* processes that may run the action at the same time

Stages == {"getPrDetails", "getJiraTicketInfo", "jiraNoOp", "getPrDiff",
           "prSummaryStep", "updateSummaryStep", "summaryNoOp",
           "prReviewStep", "postReviewStep", "reviewNoOp"}

Actions == {"summary", "review"}
Summaries == {"X"}                      \* objects the summary agent may return
Reviews == {"R"}                        \* objects the review agent may return
Diffs == {<<>>, <<"d">>}                \* filtered diffs the host may yield
Tickets == {[summary |-> "S", description |-> "D"],
            [summary |-> "S", description |-> ""]}
BranchMatches == {"noregex", "nomatch", "emptygroup", "ticket"}
Logins == {GITHUB_ACTIONS_BOT_LOGIN, "user"}

VARIABLES
    description,        \* host: the description (body) of the pull request
    comments,           \* host: the issue comments, in creation order
    clock,              \* host: the creation time handed out last
    IS_JIRA_CONFIGURED, \* config: JIRA_BASE_URL, JIRA_EMAIL and JIRA_API_TOKEN set
    branchMatch,        \* config and branch name: outcome of JIRA_BRANCH_REGEX
    runsStarted,        \* number of runs started so far
    runNo,              \* per slot: which run the slot's process is
    actions,            \* per slot: PR_AGENT_ACTIONS of the process
    runStatus,          \* per slot: NotStarted, Running, Completed, Failed
    stageStatus,        \* per slot: Pending, Running, Completed, Failed per stage
    started,            \* per slot: the stages in the order they started
    workflowState,      \* per slot: the WorkflowState singleton of the process
    existingComments,   \* per slot: what getIssueComments returned, if it did
    updateOut,          \* per slot: output of updateSummaryStep, if it ran
    postOut,            \* per slot: output of postReviewStep, if it ran
    calls,              \* per slot: external calls made, by outcome
    seen,               \* per slot: history of the publication made by the run
    hist,               \* history over all runs
    doc,                \* history of the document-mode runs of SpecDoc
    writtenBy,          \* per slot, per WorkflowState key: the run that set it
    filterRun,          \* history of the diff filtering of SpecFilter
    env,                \* config: MODEL_PROVIDER and the keys of that provider
    configErrors        \* processes that ended while loading their configuration

vars == <<description, comments, clock, IS_JIRA_CONFIGURED, branchMatch,
          runsStarted, runNo, actions, runStatus, stageStatus, started,
          workflowState, existingComments, updateOut, postOut, calls, seen,
          hist, doc, writtenBy, filterRun, env, configErrors>>

hostVars == <<description, comments, clock>>
configVars == <<IS_JIRA_CONFIGURED, branchMatch, env, configErrors>>
pureVars == <<doc, filterRun>>

\* An optional value is a sequence of length at most one.
None == <<>>
Some(v) == <<v>>
IsSet(o) == o # <<>>
Val(o) == o[1]

RECURSIVE SeqsUpTo(_, _)
SeqsUpTo(S, n) ==
    IF n = 0 THEN {<<>>}
    ELSE LET shorter == SeqsUpTo(S, n - 1)
         IN  shorter \cup {Append(s, x) : s \in {t \in shorter : Len(t) = n - 1}, x \in S}

\* WorkflowStateData with every key undefined (data = {})
EmptyWorkflowState ==
    [prDetails |-> None, jiraTicketInfo |-> None, prDiff |-> None,
     prSummary |-> None, prReview |-> None]

NoCalls ==
    [getPrDetails |-> 0, getJiraTicketInfo |-> 0, getPrDiff |-> 0,
     summaryAgent |-> 0, reviewAgent |-> 0,
     updateOk |-> 0, updateFailed |-> 0, listOk |-> 0, listFailed |-> 0,
     createOk |-> 0, createFailed |-> 0, editOk |-> 0, editFailed |-> 0]

NoSeen == [streamAtList |-> None, grew |-> 0, overlapped |-> FALSE,
           failedAt |-> None, laterRun |-> FALSE, editTarget |-> None,
           userMessageContent |-> [prSummary |-> None, prReview |-> None]]

\* No key of the WorkflowState has been set by any run (0 is no run).
NeverWritten ==
    [prDetails |-> 0, jiraTicketInfo |-> 0, prDiff |-> 0, prSummary |-> 0, prReview |-> 0]

NoFilterRun == [sections |-> <<>>, patterns |-> <<>>, raw |-> <<>>,
                out |-> None, again |-> None, MAX_DIFF_CHARS |-> 0,
                summaryPrompt |-> None, reviewPrompt |-> None]

NoDoc == [runs |-> 0, in |-> <<>>, art |-> None, prevArt |-> None]

\* ------------------------------------------------------------- change host
Min(a, b) == IF a < b THEN a ELSE b

\* A comment as the host lists it.  body is the pair (review, marked): the
\* rendered text and whether it contains GITHUB_BOT_COMMENT_MARKER.
Comment(id, login, marked, created_at, review) ==
    [id |-> id, login |-> login, marked |-> marked,
     created_at |-> created_at, review |-> review]

\* issues.listComments without per_page or page: the first page only.
getIssueComments(stream) == SubSeq(stream, 1, Min(Len(stream), PerPage))

\* editIssueComment that replaces the body of every marked comment.
editIssueComment_everyMarked(stream, commentId, review) ==
    [i \in 1..Len(stream) |->
        IF stream[i].id = commentId \/ stream[i].marked
        THEN [stream[i] EXCEPT !.review = review, !.marked = TRUE]
        ELSE stream[i]]

\* issues.updateComment: the body of the comment with that id is replaced.
editIssueComment(stream, commentId, review) ==
    [i \in 1..Len(stream) |->
        IF stream[i].id = commentId
        THEN [stream[i] EXCEPT !.review = review, !.marked = TRUE]
        ELSE stream[i]]

\* issues.createComment: a new comment by the token's identity is appended.
postPrComment(stream, review, now) ==
    Append(stream, Comment(Len(stream) + 1, GITHUB_ACTIONS_BOT_LOGIN, TRUE, now, review))

\* insertNewestFirst of a sort that puts the later of two equal elements first.
insertNewestFirst_laterFirst(sorted, c) ==
    LET k == Cardinality({i \in 1..Len(sorted) : sorted[i].created_at > c.created_at})
    IN  SubSeq(sorted, 1, k) \o <<c>> \o SubSeq(sorted, k + 1, Len(sorted))

\* Array.prototype.sort with (a, b) => time(b) - time(a): stable, newest first.
insertNewestFirst(sorted, c) ==
    LET k == Cardinality({i \in 1..Len(sorted) : sorted[i].created_at >= c.created_at})
    IN  SubSeq(sorted, 1, k) \o <<c>> \o SubSeq(sorted, k + 1, Len(sorted))

RECURSIVE sortNewestFirst(_)
sortNewestFirst(s) ==
    IF s = <<>> THEN <<>>
    ELSE insertNewestFirst(sortNewestFirst(SubSeq(s, 1, Len(s) - 1)), s[Len(s)])

\* isBotMarked without the comparison of the author's login.
isBotMarked_markerOnly(comment) == comment.marked

isBotMarked(comment) ==
    comment.login = GITHUB_ACTIONS_BOT_LOGIN /\ comment.marked

\* existingComments.filter(...).sort(...)[0], as an optional value
previousComment(existing) ==
    LET candidates == sortNewestFirst(SelectSeq(existing, isBotMarked))
    IN  IF candidates = <<>> THEN None ELSE Some(candidates[1])

\* ------------------------------------------------------------ orchestrator
hasJiraConfig == IS_JIRA_CONFIGURED
shouldGenerateSummary(r) == "summary" \in actions[r]
shouldGenerateReview(r) == "review" \in actions[r]

\* NextStage with the diff stage declared before the ticket branch.
NextStage_diffFirst(r, s) ==
    CASE s = "getPrDetails" -> "getPrDiff"
      [] s = "getPrDiff" ->
            IF hasJiraConfig THEN "getJiraTicketInfo" ELSE "jiraNoOp"
      [] s \in {"getJiraTicketInfo", "jiraNoOp"} ->
            IF shouldGenerateSummary(r) THEN "prSummaryStep" ELSE "summaryNoOp"
      [] s = "prSummaryStep" -> "updateSummaryStep"
      [] s \in {"updateSummaryStep", "summaryNoOp"} ->
            IF shouldGenerateReview(r) THEN "prReviewStep" ELSE "reviewNoOp"
      [] s = "prReviewStep" -> "postReviewStep"
      [] s \in {"postReviewStep", "reviewNoOp"} -> "end"

\* NextStage with summaryWorkflow declared without .then(updateSummaryStep).
NextStage_noPublish(r, s) ==
    CASE s = "getPrDetails" ->
            IF hasJiraConfig THEN "getJiraTicketInfo" ELSE "jiraNoOp"
      [] s \in {"getJiraTicketInfo", "jiraNoOp"} -> "getPrDiff"
      [] s = "getPrDiff" ->
            IF shouldGenerateSummary(r) THEN "prSummaryStep" ELSE "summaryNoOp"
      [] s \in {"prSummaryStep", "updateSummaryStep", "summaryNoOp"} ->
            IF shouldGenerateReview(r) THEN "prReviewStep" ELSE "reviewNoOp"
      [] s = "prReviewStep" -> "postReviewStep"
      [] s \in {"postReviewStep", "reviewNoOp"} -> "end"

\* NextStage with the summary branch taken whatever the enabled actions are.
NextStage_alwaysSummary(r, s) ==
    CASE s = "getPrDetails" ->
            IF hasJiraConfig THEN "getJiraTicketInfo" ELSE "jiraNoOp"
      [] s \in {"getJiraTicketInfo", "jiraNoOp"} -> "getPrDiff"
      [] s = "getPrDiff" -> "prSummaryStep"
      [] s = "prSummaryStep" -> "updateSummaryStep"
      [] s \in {"updateSummaryStep", "summaryNoOp"} ->
            IF shouldGenerateReview(r) THEN "prReviewStep" ELSE "reviewNoOp"
      [] s = "prReviewStep" -> "postReviewStep"
      [] s \in {"postReviewStep", "reviewNoOp"} -> "end"

\* NextStage with prAgentWorkflow declared without .step(getPrDiffStep).
NextStage_skipDiff(r, s) ==
    CASE s = "getPrDetails" ->
            IF hasJiraConfig THEN "getJiraTicketInfo" ELSE "jiraNoOp"
      [] s \in {"getJiraTicketInfo", "jiraNoOp", "getPrDiff"} ->
            IF shouldGenerateSummary(r) THEN "prSummaryStep" ELSE "summaryNoOp"
      [] s = "prSummaryStep" -> "updateSummaryStep"
      [] s \in {"updateSummaryStep", "summaryNoOp"} ->
            IF shouldGenerateReview(r) THEN "prReviewStep" ELSE "reviewNoOp"
      [] s = "prReviewStep" -> "postReviewStep"
      [] s \in {"postReviewStep", "reviewNoOp"} -> "end"

\* NextStage with the summary branch running both of its sub-workflows.
NextStage_bothBranches(r, s) ==
    CASE s = "getPrDetails" ->
            IF hasJiraConfig THEN "getJiraTicketInfo" ELSE "jiraNoOp"
      [] s \in {"getJiraTicketInfo", "jiraNoOp"} -> "getPrDiff"
      [] s = "getPrDiff" ->
            IF shouldGenerateSummary(r) THEN "prSummaryStep" ELSE "summaryNoOp"
      [] s = "prSummaryStep" -> "updateSummaryStep"
      [] s = "updateSummaryStep" -> "summaryNoOp"
      [] s = "summaryNoOp" ->
            IF shouldGenerateReview(r) THEN "prReviewStep" ELSE "reviewNoOp"
      [] s = "prReviewStep" -> "postReviewStep"
      [] s \in {"postReviewStep", "reviewNoOp"} -> "end"

\* The stage that follows s in prAgentWorkflow, "end" after the last one.
NextStage(r, s) ==
    CASE s = "getPrDetails" ->
            IF hasJiraConfig THEN "getJiraTicketInfo" ELSE "jiraNoOp"
      [] s \in {"getJiraTicketInfo", "jiraNoOp"} -> "getPrDiff"
      [] s = "getPrDiff" ->
            IF shouldGenerateSummary(r) THEN "prSummaryStep" ELSE "summaryNoOp"
      [] s = "prSummaryStep" -> "updateSummaryStep"
      [] s \in {"updateSummaryStep", "summaryNoOp"} ->
            IF shouldGenerateReview(r) THEN "prReviewStep" ELSE "reviewNoOp"
      [] s = "prReviewStep" -> "postReviewStep"
      [] s \in {"postReviewStep", "reviewNoOp"} -> "end"

IsRunning(r, s) == runStatus[r] = "Running" /\ stageStatus[r][s] = "Running"

\* Returns that leaves the run Running when the last declared stage returned.
Returns_neverCompletes(r, s) ==
    LET nxt == NextStage(r, s)
    IN  /\ stageStatus' = [stageStatus EXCEPT ![r] =
               IF nxt = "end" THEN [@ EXCEPT ![s] = "Completed"]
               ELSE [@ EXCEPT ![s] = "Completed", ![nxt] = "Running"]]
        /\ started' = [started EXCEPT ![r] = IF nxt = "end" THEN @ ELSE Append(@, nxt)]
        /\ UNCHANGED runStatus

\* Stage s of slot r returned: the next stage starts, or the run completes.
Returns(r, s) ==
    LET nxt == NextStage(r, s)
    IN  /\ stageStatus' = [stageStatus EXCEPT ![r] =
               IF nxt = "end" THEN [@ EXCEPT ![s] = "Completed"]
               ELSE [@ EXCEPT ![s] = "Completed", ![nxt] = "Running"]]
        /\ started' = [started EXCEPT ![r] = IF nxt = "end" THEN @ ELSE Append(@, nxt)]
        /\ runStatus' = [runStatus EXCEPT ![r] = IF nxt = "end" THEN "Completed" ELSE @]

\* Throws with an orchestrator that goes on to the next stage after a failure.
Throws_continue(r, s) ==
    LET nxt == NextStage(r, s)
    IN  /\ stageStatus' = [stageStatus EXCEPT ![r] =
               IF nxt = "end" THEN [@ EXCEPT ![s] = "Failed"]
               ELSE [@ EXCEPT ![s] = "Failed", ![nxt] = "Running"]]
        /\ started' = [started EXCEPT ![r] = IF nxt = "end" THEN @ ELSE Append(@, nxt)]
        /\ runStatus' = [runStatus EXCEPT ![r] = IF nxt = "end" THEN "Completed" ELSE @]

\* Stage s of slot r threw: the stage and the run fail, nothing else starts.
Throws(r, s) ==
    /\ stageStatus' = [stageStatus EXCEPT ![r][s] = "Failed"]
    /\ runStatus' = [runStatus EXCEPT ![r] = "Failed"]
    /\ UNCHANGED started

Count(r, call) == calls' = [calls EXCEPT ![r][call] = @ + 1]

\* ------------------------------------------------------------------- Init
InitDescriptions == {<<>>, <<"u">>}

InitStreams ==
    {s \in SeqsUpTo([login : Logins, marked : BOOLEAN, created_at : 0..1], MaxInitComments) :
        \A i \in 1..Len(s) : i > 1 => s[i - 1].created_at <= s[i].created_at}

InitRunState ==
    /\ runsStarted = 0
    /\ runNo = [r \in Slots |-> 0]
    /\ actions = [r \in Slots |-> {}]
    /\ runStatus = [r \in Slots |-> "NotStarted"]
    /\ stageStatus = [r \in Slots |-> [s \in Stages |-> "Pending"]]
    /\ started = [r \in Slots |-> <<>>]
    /\ workflowState = [r \in Slots |-> EmptyWorkflowState]
    /\ existingComments = [r \in Slots |-> None]
    /\ updateOut = [r \in Slots |-> None]
    /\ postOut = [r \in Slots |-> None]
    /\ calls = [r \in Slots |-> NoCalls]
    /\ seen = [r \in Slots |-> NoSeen]
    /\ writtenBy = [r \in Slots |-> NeverWritten]

\* The model provider is set and has its keys, no process has started.
InitValidConfig ==
    /\ env = [MODEL_PROVIDER |-> "openai", providerKeys |-> TRUE]
    /\ configErrors = 0

\* The description, the ticket integration and the comments already on the
\* change do not act on each other: the streams are varied with an empty
\* description and the integration off, where the branch-name regex is never
\* consulted; the descriptions and the outcomes of the regex with no comment yet.
Init ==
    /\ description \in InitDescriptions
    /\ IS_JIRA_CONFIGURED \in BOOLEAN
    /\ branchMatch \in (IF IS_JIRA_CONFIGURED THEN BranchMatches ELSE {"noregex"})
    /\ \E s \in (IF IS_JIRA_CONFIGURED \/ description # <<>> THEN {<<>>} ELSE InitStreams) :
        /\ comments = [i \in 1..Len(s) |->
                          Comment(i, s[i].login, s[i].marked, s[i].created_at, "o")]
        /\ clock = IF s = <<>> THEN 0 ELSE s[Len(s)].created_at
        /\ hist = [everOverlap |-> FALSE, everPosted |-> FALSE,
                   initBotMarked |-> (\E i \in 1..Len(s) :
                       s[i].login = GITHUB_ACTIONS_BOT_LOGIN /\ s[i].marked),
                   onlyReviewRuns |-> TRUE, racedIds |-> {}]
    /\ InitRunState
    /\ InitValidConfig
    /\ doc = NoDoc
    /\ filterRun = NoFilterRun

\* ---------------------------------------------------------------- actions
\* A slot is free when no process lives in it or its process has ended.
Free(r) == runNo[r] = 0 \/ runStatus[r] \in {"Completed", "Failed"}

\* The providers the switch over MODEL_PROVIDER has a case for.
SupportedProviders == {"openai", "azure", "anthropic", "google", "openai-compatible"}

\* ConfigLoads with an invalid JIRA_BRANCH_REGEX taken as no pattern.
ConfigLoads_regexIgnored ==
    /\ env.MODEL_PROVIDER \in SupportedProviders
    /\ env.providerKeys

\* config.ts is evaluated without throwing: JIRA_BRANCH_REGEX, when set, is a
\* regular expression, MODEL_PROVIDER is supported and its keys are set.
ConfigLoads ==
    /\ branchMatch # "invalidregex"
    /\ env.MODEL_PROVIDER \in SupportedProviders
    /\ env.providerKeys

\* entrypoint, prAgentWorkflow.createRun(): a new process loads its
\* configuration, owns an empty WorkflowState and creates a run.
CreateRun(r) ==
    /\ ConfigLoads
    /\ Free(r)
    /\ \A x \in Slots : x < r => ~Free(x)          \* the lowest free slot
    /\ runsStarted < MaxStarts
    /\ runsStarted' = runsStarted + 1
    /\ runNo' = [runNo EXCEPT ![r] = runsStarted + 1]
    /\ runStatus' = [runStatus EXCEPT ![r] = "NotStarted"]
    /\ stageStatus' = [stageStatus EXCEPT ![r] = [s \in Stages |-> "Pending"]]
    /\ started' = [started EXCEPT ![r] = <<>>]
    /\ workflowState' = [workflowState EXCEPT ![r] = EmptyWorkflowState]
    /\ writtenBy' = [writtenBy EXCEPT ![r] = NeverWritten]
    /\ existingComments' = [existingComments EXCEPT ![r] = None]
    /\ updateOut' = [updateOut EXCEPT ![r] = None]
    /\ postOut' = [postOut EXCEPT ![r] = None]
    /\ calls' = [calls EXCEPT ![r] = NoCalls]
    /\ seen' = [seen EXCEPT ![r] = NoSeen]
    /\ \E enabled \in SUBSET Actions :
        /\ actions' = [actions EXCEPT ![r] = enabled]
        /\ hist' = [hist EXCEPT !.onlyReviewRuns = @ /\ "review" \in enabled]
    /\ UNCHANGED <<hostVars, configVars, pureVars>>

\* entrypoint whose import of config.ts throws: the process ends before
\* prAgentWorkflow.createRun() is reached.
LoadConfigFails(r) ==
    /\ ~ConfigLoads
    /\ Free(r)
    /\ \A x \in Slots : x < r => ~Free(x)
    /\ runsStarted < MaxStarts
    /\ runsStarted' = runsStarted + 1
    /\ configErrors' = configErrors + 1
    /\ UNCHANGED <<hostVars, IS_JIRA_CONFIGURED, branchMatch, env, runNo, actions,
                   runStatus, stageStatus, started, workflowState, existingComments,
                   updateOut, postOut, calls, seen, hist, pureVars, writtenBy>>

\* entrypoint, await start(): the run starts with the first declared stage.
StartRun(r) ==
    /\ runNo[r] # 0
    /\ runStatus[r] = "NotStarted"
    /\ runStatus' = [runStatus EXCEPT ![r] = "Running"]
    /\ stageStatus' = [stageStatus EXCEPT ![r]["getPrDetails"] = "Running"]
    /\ started' = [started EXCEPT ![r] = <<"getPrDetails">>]
    /\ LET overlap == \E x \in Slots \ {r} : runStatus[x] = "Running"
       IN  /\ seen' = [x \in Slots |->
                  IF x = r \/ runStatus[x] = "Running"
                  THEN [seen[x] EXCEPT !.overlapped = @ \/ overlap]
                  ELSE seen[x]]
           /\ hist' = [hist EXCEPT !.everOverlap = @ \/ overlap]
    /\ UNCHANGED <<hostVars, configVars, runsStarted, runNo, actions, workflowState,
                   existingComments, updateOut, postOut, calls, pureVars, writtenBy>>

\* workflowState.set(key, value) by a stage of the run in slot r
Store(r, key, value) ==
    /\ workflowState' = [workflowState EXCEPT ![r][key] = Some(value)]
    /\ writtenBy' = [writtenBy EXCEPT ![r][key] = runNo[r]]

\* The stage leaves the WorkflowState as it is.
NoStore(r) == UNCHANGED <<workflowState, writtenBy>>

\* getPrDetailsStep: fetch the pull request and its commits, store prDetails.
GetPrDetailsStep(r) ==
    /\ IsRunning(r, "getPrDetails")
    /\ Count(r, "getPrDetails")
    /\ \E ok \in BOOLEAN :
        IF ok
        THEN /\ Store(r, "prDetails", [prDescription |-> description])
             /\ Returns(r, "getPrDetails")
             /\ UNCHANGED seen
        ELSE /\ Throws(r, "getPrDetails")
             /\ seen' = [seen EXCEPT ![r].failedAt = Some("getPrDetails")]
             /\ NoStore(r)
    /\ UNCHANGED <<hostVars, configVars, runsStarted, runNo, actions,
                   existingComments, updateOut, postOut, hist, pureVars>>

\* extractedTicketId that takes the first group of any match, empty or not.
extractedTicketId_anyGroup ==
    IF branchMatch \in {"ticket", "emptygroup"} THEN Some("T") ELSE None

\* The ticket id the branch-name regex extracts, if any.
extractedTicketId ==
    IF branchMatch = "ticket" THEN Some("T") ELSE None

\* getJiraTicketInfoStep
GetJiraTicketInfoStep(r) ==
    /\ IsRunning(r, "getJiraTicketInfo")
    /\ IF ~IsSet(workflowState[r].prDetails)
       THEN /\ Throws(r, "getJiraTicketInfo")
            /\ seen' = [seen EXCEPT ![r].failedAt = Some("getJiraTicketInfo")]
            /\ NoStore(r)
            /\ UNCHANGED calls
       ELSE IF IsSet(extractedTicketId)
       THEN /\ Count(r, "getJiraTicketInfo")
            /\ \E ok \in BOOLEAN :
                IF ok
                THEN /\ \E jiraInfo \in Tickets : Store(r, "jiraTicketInfo", jiraInfo)
                     /\ Returns(r, "getJiraTicketInfo")
                     /\ UNCHANGED seen
                ELSE /\ Throws(r, "getJiraTicketInfo")
                     /\ seen' = [seen EXCEPT ![r].failedAt = Some("getJiraTicketInfo")]
                     /\ NoStore(r)
       ELSE /\ Store(r, "jiraTicketInfo", [summary |-> "", description |-> ""])
            /\ Returns(r, "getJiraTicketInfo")
            /\ UNCHANGED <<seen, calls>>
    /\ UNCHANGED <<hostVars, configVars, runsStarted, runNo, actions,
                   existingComments, updateOut, postOut, hist, pureVars>>

\* jiraNoOp, summaryNoOp, reviewNoOp: execute: async () => ({})
NoOpStep(r, s) ==
    /\ s \in {"jiraNoOp", "summaryNoOp", "reviewNoOp"}
    /\ IsRunning(r, s)
    /\ Returns(r, s)
    /\ UNCHANGED <<hostVars, configVars, runsStarted, runNo, actions, workflowState,
                   existingComments, updateOut, postOut, calls, seen, hist, pureVars, writtenBy>>

\* getPrDiffStep: fetch the (filtered) diff, store prDiff.
GetPrDiffStep(r) ==
    /\ IsRunning(r, "getPrDiff")
    /\ Count(r, "getPrDiff")
    /\ \E ok \in BOOLEAN :
        IF ok
        THEN /\ \E diff \in Diffs : Store(r, "prDiff", diff)
             /\ Returns(r, "getPrDiff")
             /\ UNCHANGED seen
        ELSE /\ Throws(r, "getPrDiff")
             /\ seen' = [seen EXCEPT ![r].failedAt = Some("getPrDiff")]
             /\ NoStore(r)
    /\ UNCHANGED <<hostVars, configVars, runsStarted, runNo, actions,
                   existingComments, updateOut, postOut, hist, pureVars>>

\* !originalDiff: the key is undefined or holds the empty string
diffMissing(ws) == ~IsSet(ws.prDiff) \/ Val(ws.prDiff) = <<>>

\* jiraContext that takes one non-empty field of the ticket for enough.
jiraContext_either(jiraInfo) ==
    IF IsSet(jiraInfo) /\ (Val(jiraInfo).summary # "" \/ Val(jiraInfo).description # "")
    THEN <<Val(jiraInfo).summary, Val(jiraInfo).description>>
    ELSE <<>>

\* jiraSummary && jiraDescription ? `...${jiraSummary}...${jiraDescription}...` : ""
\* with jiraSummary = jiraInfo?.summary and jiraDescription = jiraInfo?.description
jiraContext(jiraInfo) ==
    IF IsSet(jiraInfo) /\ Val(jiraInfo).summary # "" /\ Val(jiraInfo).description # ""
    THEN <<Val(jiraInfo).summary, Val(jiraInfo).description>>
    ELSE <<>>

\* The parts of the message prSummaryStep and prReviewStep send to their agent
\* that come from the WorkflowState.
userMessageContent(ws) ==
    [prDetails |-> Val(ws.prDetails),
     jiraContext |-> jiraContext(ws.jiraTicketInfo),
     originalDiff |-> Val(ws.prDiff)]

\* GenerateStep that puts the clipped diff back under prDiff.
GenerateStep_storesClipped(r, s, key, agent, objects) ==
    /\ IsRunning(r, s)
    /\ IF diffMissing(workflowState[r]) \/ ~IsSet(workflowState[r].prDetails)
       THEN /\ Throws(r, s)
            /\ seen' = [seen EXCEPT ![r].failedAt = Some(s)]
            /\ NoStore(r)
            /\ UNCHANGED calls
       ELSE /\ Count(r, agent)
            /\ \E ok \in BOOLEAN :
                IF ok
                THEN /\ \E object \in objects :
                        workflowState' = [workflowState EXCEPT
                            ![r][key] = Some(object), ![r].prDiff = Some(<<"c">>)]
                     /\ writtenBy' = [writtenBy EXCEPT ![r][key] = runNo[r]]
                     /\ Returns(r, s)
                     /\ seen' = [seen EXCEPT ![r].userMessageContent[key] =
                                    Some(userMessageContent(workflowState[r]))]
                ELSE /\ Throws(r, s)
                     /\ seen' = [seen EXCEPT ![r].failedAt = Some(s),
                                    ![r].userMessageContent[key] =
                                        Some(userMessageContent(workflowState[r]))]
                     /\ NoStore(r)
    /\ UNCHANGED <<hostVars, configVars, runsStarted, runNo, actions,
                   existingComments, updateOut, postOut, hist, pureVars>>

\* prSummaryStep (key = "prSummary") and prReviewStep (key = "prReview"):
\* check the inputs, ask the agent, store the object it returns.
GenerateStep(r, s, key, agent, objects) ==
    /\ IsRunning(r, s)
    /\ IF diffMissing(workflowState[r]) \/ ~IsSet(workflowState[r].prDetails)
       THEN /\ Throws(r, s)
            /\ seen' = [seen EXCEPT ![r].failedAt = Some(s)]
            /\ NoStore(r)
            /\ UNCHANGED calls
       ELSE /\ Count(r, agent)
            /\ \E ok \in BOOLEAN :
                IF ok
                THEN /\ \E object \in objects : Store(r, key, object)
                     /\ Returns(r, s)
                     /\ seen' = [seen EXCEPT ![r].userMessageContent[key] =
                                    Some(userMessageContent(workflowState[r]))]
                ELSE /\ Throws(r, s)
                     /\ seen' = [seen EXCEPT ![r].failedAt = Some(s),
                                    ![r].userMessageContent[key] =
                                        Some(userMessageContent(workflowState[r]))]
                     /\ NoStore(r)
    /\ UNCHANGED <<hostVars, configVars, runsStarted, runNo, actions,
                   existingComments, updateOut, postOut, hist, pureVars>>

PrSummaryStep(r) ==
    GenerateStep(r, "prSummaryStep", "prSummary", "summaryAgent", Summaries)

PrReviewStep(r) ==
    GenerateStep(r, "prReviewStep", "prReview", "reviewAgent", Reviews)

\* updateSummaryStep without the catch around updatePrDescription.
UpdateSummaryStep_rethrow(r) ==
    LET summaryResult == workflowState[r].prSummary
        prDetails == workflowState[r].prDetails
    IN  /\ IsRunning(r, "updateSummaryStep")
        /\ IF ~IsSet(summaryResult) \/ ~IsSet(prDetails)
           THEN /\ updateOut' = [updateOut EXCEPT ![r] = Some([updated |-> FALSE])]
                /\ Returns(r, "updateSummaryStep")
                /\ UNCHANGED <<description, calls, seen>>
           ELSE \E ok \in BOOLEAN :
                IF ok
                THEN /\ description' = finalBody(Val(prDetails).prDescription,
                                            formatSummaryToMarkdown(Val(summaryResult)))
                     /\ Count(r, "updateOk")
                     /\ updateOut' = [updateOut EXCEPT ![r] = Some([updated |-> TRUE])]
                     /\ Returns(r, "updateSummaryStep")
                     /\ UNCHANGED seen
                ELSE /\ Count(r, "updateFailed")
                     /\ Throws(r, "updateSummaryStep")
                     /\ seen' = [seen EXCEPT ![r].failedAt = Some("updateSummaryStep")]
                     /\ UNCHANGED <<description, updateOut>>
        /\ UNCHANGED <<comments, clock, configVars, runsStarted, runNo, actions,
                       workflowState, existingComments, postOut, hist, pureVars, writtenBy>>

\* updateSummaryStep
UpdateSummaryStep(r) ==
    LET summaryResult == workflowState[r].prSummary
        prDetails == workflowState[r].prDetails
    IN  /\ IsRunning(r, "updateSummaryStep")
        /\ IF ~IsSet(summaryResult) \/ ~IsSet(prDetails)
           THEN /\ updateOut' = [updateOut EXCEPT ![r] = Some([updated |-> FALSE])]
                /\ UNCHANGED <<description, calls>>
           ELSE \E ok \in BOOLEAN :
                IF ok
                THEN /\ description' = finalBody(Val(prDetails).prDescription,
                                            formatSummaryToMarkdown(Val(summaryResult)))
                     /\ Count(r, "updateOk")
                     /\ updateOut' = [updateOut EXCEPT ![r] = Some([updated |-> TRUE])]
                ELSE /\ Count(r, "updateFailed")
                     /\ updateOut' = [updateOut EXCEPT ![r] = Some([updated |-> FALSE])]
                     /\ UNCHANGED description
        /\ Returns(r, "updateSummaryStep")
        /\ UNCHANGED <<comments, clock, configVars, runsStarted, runNo, actions,
                       workflowState, existingComments, postOut, seen, hist, pureVars, writtenBy>>

\* PostReviewStepList that throws when the review is missing, as the
\* generating stages do for their inputs.
PostReviewStepList_throwsOnMissing(r) ==
    /\ IsRunning(r, "postReviewStep")
    /\ ~IsSet(existingComments[r])
    /\ IF ~IsSet(workflowState[r].prReview)
       THEN /\ Throws(r, "postReviewStep")
            /\ UNCHANGED <<postOut, existingComments, calls, seen>>
       ELSE \E ok \in BOOLEAN :
            IF ok
            THEN /\ existingComments' = [existingComments EXCEPT ![r] =
                        Some(getIssueComments(comments))]
                 /\ seen' = [seen EXCEPT ![r].streamAtList = Some(comments)]
                 /\ Count(r, "listOk")
                 /\ UNCHANGED <<postOut, runStatus, stageStatus, started>>
            ELSE /\ Count(r, "listFailed")
                 /\ postOut' = [postOut EXCEPT ![r] =
                        Some([posted |-> FALSE, comment_id |-> 0, action_taken |-> "error"])]
                 /\ Returns(r, "postReviewStep")
                 /\ UNCHANGED <<existingComments, seen>>
    /\ UNCHANGED <<hostVars, configVars, runsStarted, runNo, actions,
                   workflowState, updateOut, hist, pureVars, writtenBy>>

\* postReviewStep up to the answer of getIssueComments
PostReviewStepList(r) ==
    /\ IsRunning(r, "postReviewStep")
    /\ ~IsSet(existingComments[r])
    /\ IF ~IsSet(workflowState[r].prReview)
       THEN /\ postOut' = [postOut EXCEPT ![r] =
                   Some([posted |-> FALSE, comment_id |-> 0, action_taken |-> "skipped"])]
            /\ Returns(r, "postReviewStep")
            /\ UNCHANGED <<existingComments, calls, seen>>
       ELSE \E ok \in BOOLEAN :
            IF ok
            THEN /\ existingComments' = [existingComments EXCEPT ![r] =
                        Some(getIssueComments(comments))]
                 /\ seen' = [seen EXCEPT ![r].streamAtList = Some(comments)]
                 /\ Count(r, "listOk")
                 /\ UNCHANGED <<postOut, runStatus, stageStatus, started>>
            ELSE /\ Count(r, "listFailed")
                 /\ postOut' = [postOut EXCEPT ![r] =
                        Some([posted |-> FALSE, comment_id |-> 0, action_taken |-> "error"])]
                 /\ Returns(r, "postReviewStep")
                 /\ UNCHANGED <<existingComments, seen>>
    /\ UNCHANGED <<hostVars, configVars, runsStarted, runNo, actions,
                   workflowState, updateOut, hist, pureVars, writtenBy>>

\* PostReviewStepWrite whose failing createComment leaves the comment behind.
PostReviewStepWrite_partial(r) ==
    LET review == Val(workflowState[r].prReview)
        previous == previousComment(Val(existingComments[r]))
    IN  /\ IsRunning(r, "postReviewStep")
        /\ IsSet(existingComments[r])
        /\ \E ok \in BOOLEAN :
            IF ~ok
            THEN /\ Count(r, IF IsSet(previous) THEN "editFailed" ELSE "createFailed")
                 /\ postOut' = [postOut EXCEPT ![r] =
                        Some([posted |-> FALSE, comment_id |-> 0, action_taken |-> "error"])]
                 /\ comments' = IF IsSet(previous) THEN comments
                                ELSE postPrComment(comments, review, clock)
                 /\ seen' = [seen EXCEPT ![r].editTarget =
                        IF IsSet(previous) THEN Some(Val(previous).id) ELSE @]
                 /\ UNCHANGED <<clock, hist>>
            ELSE IF IsSet(previous)
            THEN /\ comments' = editIssueComment(comments, Val(previous).id, review)
                 /\ Count(r, "editOk")
                 /\ postOut' = [postOut EXCEPT ![r] =
                        Some([posted |-> TRUE, comment_id |-> Val(previous).id,
                              action_taken |-> "edited"])]
                 /\ hist' = [hist EXCEPT !.everPosted = TRUE]
                 /\ seen' = [seen EXCEPT ![r].editTarget = Some(Val(previous).id)]
                 /\ UNCHANGED clock
            ELSE /\ \E now \in {clock, Min(clock + 1, MaxClock)} :
                    /\ comments' = postPrComment(comments, review, now)
                    /\ clock' = now
                 /\ Count(r, "createOk")
                 /\ postOut' = [postOut EXCEPT ![r] =
                        Some([posted |-> TRUE, comment_id |-> 0, action_taken |-> "created"])]
                 /\ seen' = [seen EXCEPT ![r].grew = 1]
                 /\ hist' = [hist EXCEPT !.everPosted = TRUE,
                        !.racedIds = IF seen[r].overlapped
                                     THEN @ \cup {Len(comments) + 1} ELSE @]
        /\ Returns(r, "postReviewStep")
        /\ UNCHANGED <<description, configVars, runsStarted, runNo, actions,
                       workflowState, existingComments, updateOut, pureVars, writtenBy>>

\* PostReviewStepWrite whose edit branch returns what the create branch does.
PostReviewStepWrite_editSaysCreated(r) ==
    LET review == Val(workflowState[r].prReview)
        previous == previousComment(Val(existingComments[r]))
    IN  /\ IsRunning(r, "postReviewStep")
        /\ IsSet(existingComments[r])
        /\ \E ok \in BOOLEAN :
            IF ~ok
            THEN /\ Count(r, IF IsSet(previous) THEN "editFailed" ELSE "createFailed")
                 /\ postOut' = [postOut EXCEPT ![r] =
                        Some([posted |-> FALSE, comment_id |-> 0, action_taken |-> "error"])]
                 /\ seen' = [seen EXCEPT ![r].editTarget =
                        IF IsSet(previous) THEN Some(Val(previous).id) ELSE @]
                 /\ UNCHANGED <<comments, clock, hist>>
            ELSE IF IsSet(previous)
            THEN /\ comments' = editIssueComment(comments, Val(previous).id, review)
                 /\ Count(r, "editOk")
                 /\ postOut' = [postOut EXCEPT ![r] =
                        Some([posted |-> TRUE, comment_id |-> 0, action_taken |-> "created"])]
                 /\ hist' = [hist EXCEPT !.everPosted = TRUE]
                 /\ seen' = [seen EXCEPT ![r].editTarget = Some(Val(previous).id)]
                 /\ UNCHANGED clock
            ELSE /\ \E now \in {clock, Min(clock + 1, MaxClock)} :
                    /\ comments' = postPrComment(comments, review, now)
                    /\ clock' = now
                 /\ Count(r, "createOk")
                 /\ postOut' = [postOut EXCEPT ![r] =
                        Some([posted |-> TRUE, comment_id |-> 0, action_taken |-> "created"])]
                 /\ seen' = [seen EXCEPT ![r].grew = 1]
                 /\ hist' = [hist EXCEPT !.everPosted = TRUE,
                        !.racedIds = IF seen[r].overlapped
                                     THEN @ \cup {Len(comments) + 1} ELSE @]
        /\ Returns(r, "postReviewStep")
        /\ UNCHANGED <<description, configVars, runsStarted, runNo, actions,
                       workflowState, existingComments, updateOut, pureVars, writtenBy>>

\* postReviewStep from the answer of getIssueComments on: edit or create
PostReviewStepWrite(r) ==
    LET review == Val(workflowState[r].prReview)
        previous == previousComment(Val(existingComments[r]))
    IN  /\ IsRunning(r, "postReviewStep")
        /\ IsSet(existingComments[r])
        /\ \E ok \in BOOLEAN :
            IF ~ok
            THEN /\ Count(r, IF IsSet(previous) THEN "editFailed" ELSE "createFailed")
                 /\ postOut' = [postOut EXCEPT ![r] =
                        Some([posted |-> FALSE, comment_id |-> 0, action_taken |-> "error"])]
                 /\ seen' = [seen EXCEPT ![r].editTarget =
                        IF IsSet(previous) THEN Some(Val(previous).id) ELSE @]
                 /\ UNCHANGED <<comments, clock, hist>>
            ELSE IF IsSet(previous)
            THEN /\ comments' = editIssueComment(comments, Val(previous).id, review)
                 /\ Count(r, "editOk")
                 /\ postOut' = [postOut EXCEPT ![r] =
                        Some([posted |-> TRUE, comment_id |-> Val(previous).id,
                              action_taken |-> "edited"])]
                 /\ hist' = [hist EXCEPT !.everPosted = TRUE]
                 /\ seen' = [seen EXCEPT ![r].editTarget = Some(Val(previous).id)]
                 /\ UNCHANGED clock
            ELSE /\ \E now \in {clock, Min(clock + 1, MaxClock)} :
                    /\ comments' = postPrComment(comments, review, now)
                    /\ clock' = now
                 /\ Count(r, "createOk")
                 /\ postOut' = [postOut EXCEPT ![r] =
                        Some([posted |-> TRUE, comment_id |-> 0, action_taken |-> "created"])]
                 /\ seen' = [seen EXCEPT ![r].grew = 1]
                 /\ hist' = [hist EXCEPT !.everPosted = TRUE,
                        !.racedIds = IF seen[r].overlapped
                                     THEN @ \cup {Len(comments) + 1} ELSE @]
        /\ Returns(r, "postReviewStep")
        /\ UNCHANGED <<description, configVars, runsStarted, runNo, actions,
                       workflowState, existingComments, updateOut, pureVars, writtenBy>>

\* One step of the process in slot r.
Step(r) ==
    \/ CreateRun(r)
    \/ StartRun(r)
    \/ GetPrDetailsStep(r)
    \/ GetJiraTicketInfoStep(r)
    \/ \E s \in Stages : NoOpStep(r, s)
    \/ GetPrDiffStep(r)
    \/ PrSummaryStep(r)
    \/ UpdateSummaryStep(r)
    \/ PrReviewStep(r)
    \/ PostReviewStepList(r)
    \/ PostReviewStepWrite(r)

\* Runs one after another (single-flight per change): one process at a time.
Next == Step(1)

Spec == Init /\ [][Next]_vars

\* A step of the run in slot r: start() and the stages; each stage step is the
\* stage's external call returning a result or a failure.
RunStep(r) ==
    \/ StartRun(r)
    \/ GetPrDetailsStep(r)
    \/ GetJiraTicketInfoStep(r)
    \/ \E s \in Stages : NoOpStep(r, s)
    \/ GetPrDiffStep(r)
    \/ PrSummaryStep(r)
    \/ UpdateSummaryStep(r)
    \/ PrReviewStep(r)
    \/ PostReviewStepList(r)
    \/ PostReviewStepWrite(r)

\* Runs one after another in which start() follows createRun() and every
\* external call returns: a run that can take a step takes one.
InitLive ==
    /\ description = <<>>
    /\ comments = <<>>
    /\ clock = 0
    /\ hist = [everOverlap |-> FALSE, everPosted |-> FALSE, initBotMarked |-> FALSE,
               onlyReviewRuns |-> TRUE, racedIds |-> {}]
    /\ IS_JIRA_CONFIGURED \in BOOLEAN
    /\ branchMatch \in {"nomatch", "ticket"}
    /\ InitRunState
    /\ InitValidConfig
    /\ doc = NoDoc
    /\ filterRun = NoFilterRun

SpecLive == InitLive /\ [][Next]_vars /\ WF_vars(RunStep(1))

\* Overlapping runs for the same change: no run-level locking.
InitRace ==
    /\ description = <<>>
    /\ \E n \in {0, MaxInitComments} :
        comments = [i \in 1..n |-> Comment(i, "user", FALSE, 0, "o")]
    /\ clock = 0
    /\ hist = [everOverlap |-> FALSE, everPosted |-> FALSE, initBotMarked |-> FALSE,
               onlyReviewRuns |-> TRUE, racedIds |-> {}]
    /\ IS_JIRA_CONFIGURED = TRUE
    /\ branchMatch = "nomatch"
    /\ InitRunState
    /\ InitValidConfig
    /\ doc = NoDoc
    /\ filterRun = NoFilterRun

NextRace == \E r \in Slots : Step(r)

SpecRace == InitRace /\ [][NextRace]_vars

\* --------------------------------------------- several runs in one process
\* prAgentWorkflow.createRun() and start() called again in a process whose run
\* has ended (the workflow is registered with the exported Mastra instance):
\* the configuration and the workflowState singleton of the process stay.
StartLaterRun(r) ==
    /\ runNo[r] # 0
    /\ runStatus[r] \in {"Completed", "Failed"}
    /\ runsStarted < MaxStarts
    /\ runsStarted' = runsStarted + 1
    /\ runNo' = [runNo EXCEPT ![r] = runsStarted + 1]
    /\ runStatus' = [runStatus EXCEPT ![r] = "NotStarted"]
    /\ stageStatus' = [stageStatus EXCEPT ![r] = [s \in Stages |-> "Pending"]]
    /\ started' = [started EXCEPT ![r] = <<>>]
    /\ existingComments' = [existingComments EXCEPT ![r] = None]
    /\ updateOut' = [updateOut EXCEPT ![r] = None]
    /\ postOut' = [postOut EXCEPT ![r] = None]
    /\ calls' = [calls EXCEPT ![r] = NoCalls]
    /\ seen' = [seen EXCEPT ![r] = [NoSeen EXCEPT !.laterRun = TRUE]]
    /\ hist' = [hist EXCEPT !.onlyReviewRuns = @ /\ "review" \in actions[r]]
    /\ UNCHANGED <<hostVars, configVars, actions, workflowState, writtenBy, pureVars>>

InitProc ==
    /\ description = <<>>
    /\ comments = <<>>
    /\ clock = 0
    /\ hist = [everOverlap |-> FALSE, everPosted |-> FALSE, initBotMarked |-> FALSE,
               onlyReviewRuns |-> TRUE, racedIds |-> {}]
    /\ IS_JIRA_CONFIGURED \in BOOLEAN
    /\ branchMatch \in {"nomatch", "ticket"}
    /\ InitRunState
    /\ InitValidConfig
    /\ doc = NoDoc
    /\ filterRun = NoFilterRun

NextProc == Step(1) \/ StartLaterRun(1)

SpecProc == InitProc /\ [][NextProc]_vars

\* --------------------------------------------- loading the configuration
\* Processes started with any MODEL_PROVIDER (unset, one the switch has no
\* case for, or a supported one), with or without the keys of that provider,
\* and with a JIRA_BRANCH_REGEX that is or is not a regular expression.
InitConfig ==
    /\ description = <<>>
    /\ comments = <<>>
    /\ clock = 0
    /\ hist = [everOverlap |-> FALSE, everPosted |-> FALSE, initBotMarked |-> FALSE,
               onlyReviewRuns |-> TRUE, racedIds |-> {}]
    /\ IS_JIRA_CONFIGURED \in BOOLEAN
    /\ branchMatch \in {"nomatch", "invalidregex"}
    /\ env \in [MODEL_PROVIDER : SupportedProviders \cup {"unset", "other"},
                 providerKeys : BOOLEAN]
    /\ configErrors = 0
    /\ InitRunState
    /\ doc = NoDoc
    /\ filterRun = NoFilterRun

NextConfig == Step(1) \/ LoadConfigFails(1)

SpecConfig == InitConfig /\ [][NextConfig]_vars

\* ------------------------------------------ a publication stage on its own
\* execute() of updateSummaryStep or of postReviewStep called with the
\* WorkflowState in any condition, as a workflow that declares the stage
\* after other stages than prAgentWorkflow does may leave it.
PublicationStages == {"updateSummaryStep", "postReviewStep"}

InitStage ==
    /\ description \in InitDescriptions
    /\ \E s \in InitStreams :
        /\ comments = [i \in 1..Len(s) |->
                          Comment(i, s[i].login, s[i].marked, s[i].created_at, "o")]
        /\ clock = IF s = <<>> THEN 0 ELSE s[Len(s)].created_at
        /\ hist = [everOverlap |-> FALSE, everPosted |-> FALSE,
                   initBotMarked |-> (\E i \in 1..Len(s) :
                       s[i].login = GITHUB_ACTIONS_BOT_LOGIN /\ s[i].marked),
                   onlyReviewRuns |-> FALSE, racedIds |-> {}]
    /\ IS_JIRA_CONFIGURED = FALSE
    /\ branchMatch = "noregex"
    /\ runsStarted = 1
    /\ runNo = [r \in Slots |-> IF r = 1 THEN 1 ELSE 0]
    /\ actions = [r \in Slots |-> IF r = 1 THEN Actions ELSE {}]
    /\ runStatus = [r \in Slots |-> IF r = 1 THEN "Running" ELSE "NotStarted"]
    /\ \E stage \in PublicationStages :
        /\ stageStatus = [r \in Slots |-> [s \in Stages |->
               IF r = 1 /\ s = stage THEN "Running" ELSE "Pending"]]
        /\ started = [r \in Slots |-> IF r = 1 THEN <<stage>> ELSE <<>>]
    /\ \E present \in SUBSET {"prDetails", "prSummary", "prReview"} :
        /\ workflowState = [r \in Slots |->
               IF r # 1 THEN EmptyWorkflowState
               ELSE [prDetails |-> IF "prDetails" \in present
                                   THEN Some([prDescription |-> description]) ELSE None,
                     jiraTicketInfo |-> None,
                     prDiff |-> None,
                     prSummary |-> IF "prSummary" \in present THEN Some("X") ELSE None,
                     prReview |-> IF "prReview" \in present THEN Some("R") ELSE None]]
        /\ writtenBy = [r \in Slots |->
               IF r # 1 THEN NeverWritten
               ELSE [k \in DOMAIN NeverWritten |-> IF k \in present THEN 1 ELSE 0]]
    /\ existingComments = [r \in Slots |-> None]
    /\ updateOut = [r \in Slots |-> None]
    /\ postOut = [r \in Slots |-> None]
    /\ calls = [r \in Slots |-> NoCalls]
    /\ seen = [r \in Slots |-> NoSeen]
    /\ InitValidConfig
    /\ doc = NoDoc
    /\ filterRun = NoFilterRun

NextStageOnly ==
    \/ UpdateSummaryStep(1)
    \/ PostReviewStepList(1)
    \/ PostReviewStepWrite(1)

SpecStage == InitStage /\ [][NextStageOnly]_vars

\* ------------------------------------------- the user edits the description
\* The author of the pull request adds a line at the top of the description
\* on the change host, at any moment, also while a run is in progress.
UserEditsDescription ==
    /\ \A i \in 1..Len(description) : description[i] # "e"
    /\ description' = <<"e", "n">> \o description
    /\ UNCHANGED <<comments, clock, configVars, runsStarted, runNo, actions, runStatus,
                   stageStatus, started, workflowState, existingComments, updateOut,
                   postOut, calls, seen, hist, pureVars, writtenBy>>

InitEdit ==
    /\ description \in InitDescriptions
    /\ comments = <<>>
    /\ clock = 0
    /\ hist = [everOverlap |-> FALSE, everPosted |-> FALSE, initBotMarked |-> FALSE,
               onlyReviewRuns |-> TRUE, racedIds |-> {}]
    /\ IS_JIRA_CONFIGURED \in BOOLEAN
    /\ branchMatch = "nomatch"
    /\ InitRunState
    /\ InitValidConfig
    /\ doc = NoDoc
    /\ filterRun = NoFilterRun

NextEdit == Step(1) \/ UserEditsDescription

SpecEdit == InitEdit /\ [][NextEdit]_vars

\* ------------------------------------------------ document mode on its own
\* Successive runs of updateSummaryStep on one pull request, each reading the
\* description the previous run wrote, from any short starting description.
DocTokens == {"u", "n", GITHUB_SUMMARY_START_MARKER, GITHUB_SUMMARY_END_MARKER}
DocSummaries == {"X", "Y"}

\* "User note\n<BEGIN>old\n<END>": a note followed by an earlier summary block.
NoteAndOldBlock ==
    <<"u", "n", GITHUB_SUMMARY_START_MARKER, "Y", "n", GITHUB_SUMMARY_END_MARKER>>

InitDoc ==
    /\ description \in SeqsUpTo(DocTokens, MaxLen) \cup {NoteAndOldBlock}
    /\ comments = <<>>
    /\ clock = 0
    /\ hist = [everOverlap |-> FALSE, everPosted |-> FALSE, initBotMarked |-> FALSE,
               onlyReviewRuns |-> TRUE, racedIds |-> {}]
    /\ IS_JIRA_CONFIGURED = FALSE
    /\ branchMatch = "noregex"
    /\ InitRunState
    /\ InitValidConfig
    /\ doc = NoDoc
    /\ filterRun = NoFilterRun

\* One run whose summary stage stored summaryResult and whose metadata stage
\* read the description as it stands: updateSummaryStep publishes.
DocRun ==
    /\ doc.runs < MaxDocRuns
    /\ \E summaryResult \in DocSummaries :
        /\ description' = finalBody(description, formatSummaryToMarkdown(summaryResult))
        /\ doc' = [runs |-> doc.runs + 1, in |-> description,
                   art |-> Some(summaryResult), prevArt |-> doc.art]
    /\ UNCHANGED <<comments, clock, configVars, runsStarted, runNo, actions, runStatus,
                   stageStatus, started, workflowState, existingComments, updateOut,
                   postOut, calls, seen, hist, writtenBy, filterRun>>

NextDoc == DocRun

SpecDoc == InitDoc /\ [][NextDoc]_vars

\* ------------------------------------------------ getPrDiff, the filter
\* A diff is a text of tokens: a token is a line terminator or the text of one
\* line.  Destination paths of the file sections; git writes the header of a
\* path with bytes outside ASCII in double quotes ("q..." stands for these).
\* "c.lock" stands for a section whose header line starts as the others do
\* and ends with a carriage return, which the pattern of the header refuses.
Paths == {"a.lock", "b.ts", "q.lock", "q.ts", "c.lock"}
QuotedPaths == {"q.lock", "q.ts"}
CrPaths == {"c.lock"}

\* The ignore patterns and the paths micromatch.isMatch(..., {dot: true})
\* matches for each.
Patterns == {"*.lock", "*.ts"}
Matches(pattern) ==
    IF pattern = "*.lock" THEN {"a.lock", "q.lock", "c.lock"} ELSE {"b.ts", "q.ts"}

isMatch(path, ignorePatterns) ==
    \E i \in 1..Len(ignorePatterns) : path \in Matches(ignorePatterns[i])

\* The "diff --git" line git writes for a destination path.
HeaderLine(path) ==
    CASE path = "a.lock" -> "diff --git a/a.lock b/a.lock"
      [] path = "b.ts"   -> "diff --git a/b.ts b/b.ts"
      [] path = "q.lock" -> "diff --git \"a/q.lock\" \"b/q.lock\""
      [] path = "q.ts"   -> "diff --git \"a/q.ts\" \"b/q.ts\""
      [] path = "c.lock" -> "diff --git a/c.lock b/c.lock\r"

\* line.startsWith("diff --git a/"), for a line given as its tokens
startsWithDiffGitA(line) ==
    /\ line # <<>>
    /\ \E path \in Paths \ QuotedPaths : line[1] = HeaderLine(path)

\* line.match(/^diff --git a\/(.*?) b\/(.*?)$/): the second group, if any
matchedPath(line) ==
    LET parsed == (Paths \ QuotedPaths) \ CrPaths
    IN  IF Len(line) = 1 /\ \E path \in parsed : line[1] = HeaderLine(path)
        THEN Some(CHOOSE path \in parsed : line[1] = HeaderLine(path))
        ELSE None

\* rawDiff.split("\n")
RECURSIVE split(_)
split(text) ==
    LET k == indexOf(text, "\n")
    IN  IF k = 0 THEN <<text>>
        ELSE <<SubSeq(text, 1, k - 1)>> \o split(SubSeq(text, k + 1, Len(text)))

\* filteredLines.join("\n")
RECURSIVE join(_)
join(lines) ==
    IF lines = <<>> THEN <<>>
    ELSE IF Len(lines) = 1 THEN lines[1]
    ELSE lines[1] \o <<"\n">> \o join(Tail(lines))

\* The loop over diffLines, from line i on, with the current isIgnored.
RECURSIVE filterLines(_, _, _, _)
filterLines(diffLines, i, isIgnored, ignorePatterns) ==
    IF i > Len(diffLines) THEN <<>>
    ELSE LET line == diffLines[i]
             ignoredNow ==
                 IF startsWithDiffGitA(line)
                 THEN IF IsSet(matchedPath(line))
                      THEN isMatch(Val(matchedPath(line)), ignorePatterns)
                      ELSE FALSE
                 ELSE isIgnored
         IN  (IF ignoredNow THEN <<>> ELSE <<line>>)
             \o filterLines(diffLines, i + 1, ignoredNow, ignorePatterns)

\* getPrDiff with a line terminator added after the joined lines.
getPrDiff_trailingNewline(rawDiff, ignorePatterns) ==
    IF ignorePatterns = <<>> THEN rawDiff
    ELSE join(filterLines(split(rawDiff), 1, FALSE, ignorePatterns)) \o <<"\n">>

\* getPrDiff from the answer of pulls.get on
getPrDiff(rawDiff, ignorePatterns) ==
    IF ignorePatterns = <<>> THEN rawDiff
    ELSE join(filterLines(split(rawDiff), 1, FALSE, ignorePatterns))

\* The text of one file section: its header line and its changed lines, each
\* with its line terminator.
SectionText(section) ==
    <<HeaderLine(section.path), "\n">> \o section.body

RECURSIVE DiffText(_)
DiffText(sections) ==
    IF sections = <<>> THEN <<>>
    ELSE SectionText(sections[1]) \o DiffText(Tail(sections))

SectionBodies == {<<>>, <<"+x", "\n">>}

InitFilter ==
    /\ description = <<>>
    /\ comments = <<>>
    /\ clock = 0
    /\ hist = [everOverlap |-> FALSE, everPosted |-> FALSE, initBotMarked |-> FALSE,
               onlyReviewRuns |-> TRUE, racedIds |-> {}]
    /\ IS_JIRA_CONFIGURED = FALSE
    /\ branchMatch = "noregex"
    /\ InitRunState
    /\ InitValidConfig
    /\ doc = NoDoc
    /\ \E sections \in SeqsUpTo([path : Paths, body : SectionBodies], MaxSections),
          ignorePatterns \in SeqsUpTo(Patterns, 2) :
        filterRun = [NoFilterRun EXCEPT !.sections = sections,
                                        !.patterns = ignorePatterns,
                                        !.raw = DiffText(sections)]

\* getPrDiff(ignorePatterns) on the diff the host returns.
FilterDiff ==
    /\ ~IsSet(filterRun.out)
    /\ filterRun' = [filterRun EXCEPT !.out = Some(getPrDiff(filterRun.raw, filterRun.patterns))]
    /\ UNCHANGED <<hostVars, configVars, runsStarted, runNo, actions, runStatus,
                   stageStatus, started, workflowState, existingComments, updateOut,
                   postOut, calls, seen, hist, doc, writtenBy>>

\* getPrDiff(ignorePatterns) on a diff that is the filtered diff.
FilterAgain ==
    /\ IsSet(filterRun.out)
    /\ ~IsSet(filterRun.again)
    /\ filterRun' = [filterRun EXCEPT
            !.again = Some(getPrDiff(Val(filterRun.out), filterRun.patterns))]
    /\ UNCHANGED <<hostVars, configVars, runsStarted, runNo, actions, runStatus,
                   stageStatus, started, workflowState, existingComments, updateOut,
                   postOut, calls, seen, hist, doc, writtenBy>>

NextFilter == FilterDiff \/ FilterAgain

SpecFilter == InitFilter /\ [][NextFilter]_vars

\* ------------------------------------------ truncateDiffSafely, the prompts
\* The number of characters of a line of the diff, or of its terminator.
Chars(token) ==
    CASE token = "\n" -> 1
      [] token = "diff --git a/a.lock b/a.lock" -> 28
      [] token = "diff --git a/b.ts b/b.ts" -> 24
      [] token = "diff --git \"a/q.lock\" \"b/q.lock\"" -> 32
      [] token = "diff --git \"a/q.ts\" \"b/q.ts\"" -> 28
      [] token = "diff --git a/c.lock b/c.lock\r" -> 29
      [] token = "~" -> 1
      [] OTHER -> 2

\* text.length
RECURSIVE Length(_)
Length(text) == IF text = <<>> THEN 0 ELSE Chars(Head(text)) + Length(Tail(text))

Max(S) == CHOOSE x \in S : \A y \in S : y <= x

\* The prefixes of the diff that end where a file section ends, by their
\* number of tokens: before each header line but the first, and the whole diff.
SectionEnds(diff) ==
    {i - 1 : i \in {j \in 2..Len(diff) : startsWithDiffGitA(<<diff[j]>>) /\ diff[j - 1] = "\n"}}
        \cup {Len(diff)}

\* The prefixes of the diff that end with a full line.
LineEnds(diff) == {k \in 0..Len(diff) : k = 0 \/ diff[k] = "\n"}

\* truncateDiffSafely(diff, maxChars): the diff as it is when it fits; else
\* the file sections that fit together, in order; else the full lines of the
\* first file section that fit.
truncateDiffSafely(diff, maxChars) ==
    LET fits(k) == Length(SubSeq(diff, 1, k)) <= maxChars
        whole == {k \in SectionEnds(diff) : k > 0 /\ fits(k)}
        cut == IF whole # {} THEN Max(whole)
               ELSE Max({0} \cup {k \in LineEnds(diff) : fits(k)})
    IN  IF Length(diff) <= maxChars
        THEN [truncatedDiff |-> diff, wasTruncated |-> FALSE]
        ELSE [truncatedDiff |-> SubSeq(diff, 1, cut),
              wasTruncated |-> Length(SubSeq(diff, 1, cut)) < Length(diff)]

\* originalDiff.substring(0, maxChars): the last line may be cut, "~" stands
\* for the part of a line that is left.
RECURSIVE substring(_, _)
substring(text, maxChars) ==
    IF text = <<>> \/ maxChars <= 0 THEN <<>>
    ELSE IF Chars(Head(text)) <= maxChars
         THEN <<Head(text)>> \o substring(Tail(text), maxChars - Chars(Head(text)))
         ELSE <<"~">>

\* promptOf that clips the diff with substring.
promptOf_substring(originalDiff, MAX_DIFF_CHARS) ==
    LET processedDiff == substring(originalDiff, MAX_DIFF_CHARS)
    IN  [processedDiff |-> processedDiff,
         clippingWarning |-> Length(processedDiff) < Length(originalDiff)]

\* promptOf that never writes the note.
promptOf_noWarning(originalDiff, MAX_DIFF_CHARS) ==
    [processedDiff |-> truncateDiffSafely(originalDiff, MAX_DIFF_CHARS).truncatedDiff,
     clippingWarning |-> FALSE]

\* What prSummaryStep and prReviewStep put into userMessageContent for the
\* diff: the diff as clipped, and whether the note on truncation precedes it.
promptOf(originalDiff, MAX_DIFF_CHARS) ==
    LET clipped == truncateDiffSafely(originalDiff, MAX_DIFF_CHARS)
        processedDiff == clipped.truncatedDiff
        diffWasClipped == clipped.wasTruncated
    IN  [processedDiff |-> processedDiff, clippingWarning |-> diffWasClipped]

TruncPaths == {"a.lock", "b.ts"}
TruncBodies == {<<>>, <<"+x", "\n">>, <<"+x", "\n", "-y", "\n">>}

InitTrunc ==
    /\ description = <<>>
    /\ comments = <<>>
    /\ clock = 0
    /\ hist = [everOverlap |-> FALSE, everPosted |-> FALSE, initBotMarked |-> FALSE,
               onlyReviewRuns |-> TRUE, racedIds |-> {}]
    /\ IS_JIRA_CONFIGURED = FALSE
    /\ branchMatch = "noregex"
    /\ InitRunState
    /\ InitValidConfig
    /\ doc = NoDoc
    /\ \E sections \in SeqsUpTo([path : TruncPaths, body : TruncBodies], MaxSections),
          ignorePatterns \in {<<>>, <<"*.lock">>},
          maxChars \in 0..MaxBudget :
        filterRun = [NoFilterRun EXCEPT !.sections = sections,
                                        !.patterns = ignorePatterns,
                                        !.raw = DiffText(sections),
                                        !.MAX_DIFF_CHARS = maxChars]

\* prSummaryStep (key = "summaryPrompt") and prReviewStep (key =
\* "reviewPrompt") from the read of prDiff to the message for the agent; with
\* an originalDiff that is not truthy the stage throws before.
BuildPrompt(key) ==
    /\ IsSet(filterRun.out)
    /\ ~IsSet(filterRun[key])
    /\ Val(filterRun.out) # <<>>
    /\ filterRun' = [filterRun EXCEPT
            ![key] = Some(promptOf(Val(filterRun.out), filterRun.MAX_DIFF_CHARS))]
    /\ UNCHANGED <<hostVars, configVars, runsStarted, runNo, actions, runStatus,
                   stageStatus, started, workflowState, existingComments, updateOut,
                   postOut, calls, seen, hist, doc, writtenBy>>

SummaryPrompt == BuildPrompt("summaryPrompt")
ReviewPrompt == BuildPrompt("reviewPrompt")

NextTrunc == FilterDiff \/ SummaryPrompt \/ ReviewPrompt

SpecTrunc == InitTrunc /\ [][NextTrunc]_vars

TypeOK ==
    /\ runsStarted \in 0..MaxStarts
    /\ \A r \in Slots : runStatus[r] \in {"NotStarted", "Running", "Completed", "Failed"}

\* ================================================================== claims
CountOf(s, t) == Cardinality({i \in 1..Len(s) : s[i] = t})

IsPrefix(p, s) == Len(p) <= Len(s) /\ SubSeq(s, 1, Len(p)) = p

\* Position of the first t in s, 0 when there is none.
FirstPos(s, t) ==
    IF \E i \in 1..Len(s) : s[i] = t
    THEN CHOOSE i \in 1..Len(s) : s[i] = t /\ \A j \in 1..(i - 1) : s[j] # t
    ELSE 0

\* s without its leading and trailing white space.
Stripped(s) ==
    LET solid == {i \in 1..Len(s) : s[i] # "n"}
    IN  IF solid = {} THEN <<>>
        ELSE SubSeq(s, CHOOSE i \in solid : \A j \in solid : i <= j,
                       CHOOSE i \in solid : \A j \in solid : j <= i)

\* Both sentinels present, the first BEGIN before the first END.
WellFormed(d) ==
    /\ FirstPos(d, "BEGIN") # 0
    /\ FirstPos(d, "END") # 0
    /\ FirstPos(d, "BEGIN") < FirstPos(d, "END")

\* The text the claims call user-owned.
UserOwned(d) == IF WellFormed(d) THEN SubSeq(d, 1, FirstPos(d, "BEGIN") - 1) ELSE d

Divider == <<"n", "n", "-", "-", "-", "n", "n">>

\* C1: after every number n >= 1 of successive runs of updateSummaryStep, from
\* any starting description, the description holds exactly one BEGIN-SUMMARY
\* sentinel and exactly one END-SUMMARY sentinel.
C1_ExactlyOneBlock ==
    doc.runs >= 1 =>
        /\ CountOf(description, "BEGIN") = 1
        /\ CountOf(description, "END") = 1

C3_Idempotent ==
    (doc.runs >= 2 /\ doc.art = doc.prevArt) => description = doc.in

\* ------------------------------------------------------------ stream mode
\* Positions of the comments of stream S that the agent wrote and marked.
BotMarkedIn(S) ==
    {i \in 1..Len(S) : S[i].login = "github-actions[bot]" /\ S[i].marked}

Posted(r) == IsSet(postOut[r]) /\ Val(postOut[r]).posted

\* C4: a run of postReviewStep with a generated review creates exactly one
\* comment and edits none when the stream holds no agent-authored marked
\* comment; edits that comment, creates none and leaves the number of comments
\* unchanged when the stream holds exactly one; and edits only the later one
\* when it holds two with different creation times.
C4_CreateVsEdit ==
    \A r \in Slots : Posted(r) =>
        LET S == Val(seen[r].streamAtList)
            M == BotMarkedIn(S)
            out == Val(postOut[r])
        IN  /\ M = {} =>
                /\ out.action_taken = "created"
                /\ calls[r].createOk = 1 /\ calls[r].editOk = 0
            /\ Cardinality(M) = 1 =>
                /\ out.action_taken = "edited"
                /\ \E i \in M : out.comment_id = S[i].id
                /\ calls[r].createOk = 0 /\ calls[r].editOk = 1
                /\ seen[r].grew = 0
            /\ \A i, j \in M :
                (Cardinality(M) = 2 /\ S[i].created_at < S[j].created_at) =>
                    /\ out.action_taken = "edited"
                    /\ out.comment_id = S[j].id
                    /\ calls[r].createOk = 0 /\ calls[r].editOk = 1

\* C5: from a stream without an agent-authored marked comment, after any
\* sequence of review-enabled runs executed one after another (at least one of
\* which published), the stream holds exactly one agent-authored marked comment.
C5_ExactlyOneLive ==
    ( /\ ~hist.initBotMarked
      /\ hist.onlyReviewRuns
      /\ ~hist.everOverlap
      /\ hist.everPosted
      /\ \A r \in Slots : runStatus[r] # "Running" )
    => Cardinality(BotMarkedIn(comments)) = 1

\* C6: once overlapping runs have each created an agent-authored marked
\* comment, every later run that overlaps no other run edits the marked comment
\* with the newer creation time, and never creates another or selects an older one.
C6_NewestEdited ==
    \A r \in Slots : (Posted(r) /\ ~seen[r].overlapped) =>
        LET S == Val(seen[r].streamAtList)
            M == BotMarkedIn(S)
            out == Val(postOut[r])
        IN  \A j \in M :
                ( /\ Cardinality({i \in M : S[i].id \in hist.racedIds}) >= 2
                  /\ \A i \in M \ {j} : S[i].created_at < S[j].created_at )
                => /\ out.action_taken = "edited"
                   /\ out.comment_id = S[j].id

\* Overlapping runs have both created a comment (the race of C6).
C6_RaceState ==
    \E r1, r2 \in Slots :
        /\ r1 # r2
        /\ calls[r1].createOk = 1 /\ calls[r2].createOk = 1
        /\ Cardinality(BotMarkedIn(comments)) >= 2

\* ----------------------------------------------------------- orchestration
\* The declared order: the stages that may start right after stage s.
DeclaredAfter(s) ==
    CASE s = "getPrDetails" -> {"getJiraTicketInfo", "jiraNoOp"}
      [] s \in {"getJiraTicketInfo", "jiraNoOp"} -> {"getPrDiff"}
      [] s = "getPrDiff" -> {"prSummaryStep", "summaryNoOp"}
      [] s = "prSummaryStep" -> {"updateSummaryStep"}
      [] s \in {"updateSummaryStep", "summaryNoOp"} -> {"prReviewStep", "reviewNoOp"}
      [] s = "prReviewStep" -> {"postReviewStep"}
      [] OTHER -> {}

StartedStages(r) == {started[r][i] : i \in 1..Len(started[r])}

\* C7: the stages of a run execute one at a time and start in the declared
\* order: metadata, ticket branch, diff, summary branch (generate, publish),
\* review branch (generate, publish); a stage starts only when every stage
\* started before it has completed, and the diff stage never starts before the
\* ticket branch has completed.
C7_SequentialDeclaredOrder ==
    \A r \in Slots :
        LET st == started[r]
        IN  /\ Cardinality({s \in Stages : stageStatus[r][s] = "Running"}) <= 1
            /\ st # <<>> => st[1] = "getPrDetails"
            /\ \A i \in 1..(Len(st) - 1) :
                /\ st[i + 1] \in DeclaredAfter(st[i])
                /\ stageStatus[r][st[i]] = "Completed"
            /\ \A s \in Stages : stageStatus[r][s] # "Pending" <=> s \in StartedStages(r)
            /\ stageStatus[r]["getPrDiff"] # "Pending" =>
                \/ stageStatus[r]["getJiraTicketInfo"] = "Completed"
                \/ stageStatus[r]["jiraNoOp"] = "Completed"

\* A run has completed after running every stage of the enabled branches.
C7_Witness ==
    \E r \in Slots :
        /\ runStatus[r] = "Completed"
        /\ started[r] = <<"getPrDetails", "getJiraTicketInfo", "getPrDiff",
                          "prSummaryStep", "updateSummaryStep",
                          "prReviewStep", "postReviewStep">>

RunMoves == {<<"NotStarted", "Running">>, <<"Running", "Completed">>,
             <<"Running", "Failed">>}
StageMoves == {<<"Pending", "Running">>, <<"Running", "Completed">>,
               <<"Running", "Failed">>}

\* What C8 says of one step of the run in slot r.
C8_Step(r) ==
    /\ runStatus'[r] # runStatus[r] => <<runStatus[r], runStatus'[r]>> \in RunMoves
    /\ \A s \in Stages :
        stageStatus'[r][s] # stageStatus[r][s] =>
            <<stageStatus[r][s], stageStatus'[r][s]>> \in StageMoves
    \* a stage fails exactly when the run fails, and then nothing starts
    /\ (\E s \in Stages : stageStatus[r][s] = "Running" /\ stageStatus'[r][s] = "Failed")
        <=> (runStatus[r] = "Running" /\ runStatus'[r] = "Failed")
    /\ runStatus'[r] = "Failed" => started'[r] = started[r]
    \* Completed and Failed are terminal: no stage runs again, no call is made
    /\ runStatus[r] \in {"Completed", "Failed"} =>
        /\ stageStatus'[r] = stageStatus[r]
        /\ calls'[r] = calls[r]
        /\ workflowState'[r] = workflowState[r]

\* What C8 says of one state of the run in slot r.
C8_State(r) ==
    /\ runStatus[r] = "Failed" <=> \E s \in Stages : stageStatus[r][s] = "Failed"
    /\ runStatus[r] = "Failed" =>
        /\ Cardinality({s \in Stages : stageStatus[r][s] = "Failed"}) = 1
        /\ \A s \in Stages : stageStatus[r][s] # "Running"
        /\ stageStatus[r][started[r][Len(started[r])]] = "Failed"
    /\ runStatus[r] = "Completed" =>
        \A s \in Stages : stageStatus[r][s] \in {"Pending", "Completed"}
    /\ runStatus[r] = "NotStarted" => \A s \in Stages : stageStatus[r][s] = "Pending"

\* C8: a run moves NotStarted -> Running -> Completed, or Running -> Failed
\* when a stage throws; the run fails at that stage, no later stage starts, the
\* failed stage is not executed again, and Completed and Failed are terminal.
C8_RunStateMachine ==
    /\ [](\A r \in Slots : C8_State(r))
    /\ [][\A r \in Slots : runNo'[r] = runNo[r] => C8_Step(r)]_vars

\* A run with the review action enabled failed in the summary stage and the
\* review branch never started.
C8_Witness ==
    \E r \in Slots :
        /\ runStatus[r] = "Failed"
        /\ "review" \in actions[r]
        /\ stageStatus[r]["prSummaryStep"] = "Failed"
        /\ stageStatus[r]["prReviewStep"] = "Pending"

\* ------------------------------------------------------------- publication
HostCallFailed(r) ==
    calls[r].updateFailed + calls[r].listFailed
        + calls[r].createFailed + calls[r].editFailed > 0

ReviewBranchStarted(r) ==
    \E s \in {"prReviewStep", "reviewNoOp", "postReviewStep"} :
        stageStatus[r][s] # "Pending"

\* C9, as stated: a failing updateDescription, listComments, createComment or
\* editComment fails the run, and after a failed description update the review
\* branch does not run.
C9_FailureAborts ==
    \A r \in Slots :
        /\ HostCallFailed(r) => runStatus[r] = "Failed"
        /\ calls[r].updateFailed > 0 => ~ReviewBranchStarted(r)

\* C9, amended: a failing host call during publication is caught by the
\* publish stage; the stage completes and reports updated = false (description)
\* or posted = false with action_taken = error (comment), it writes nothing to
\* the host, the run does not fail, and the stages declared after it run: after
\* a failed description update the review branch starts.
C9_FailureReported ==
    \A r \in Slots :
        /\ calls[r].updateFailed > 0 =>
            /\ updateOut[r] = Some([updated |-> FALSE])
            /\ stageStatus[r]["updateSummaryStep"] = "Completed"
            /\ calls[r].updateOk = 0
            /\ ReviewBranchStarted(r)
            /\ seen[r].failedAt # Some("updateSummaryStep")
        /\ calls[r].listFailed + calls[r].createFailed + calls[r].editFailed > 0 =>
            /\ postOut[r] = Some([posted |-> FALSE, comment_id |-> 0,
                                  action_taken |-> "error"])
            /\ stageStatus[r]["postReviewStep"] = "Completed"
            /\ calls[r].createOk + calls[r].editOk = 0
            /\ runStatus[r] = "Completed"

\* A description update failed and the run went on to publish its review.
C9_Witness ==
    \E r \in Slots :
        /\ calls[r].updateFailed > 0
        /\ runStatus[r] = "Completed"
        /\ Posted(r)

\* C10, as stated: a Completed run with the summary action enabled has updated
\* the description successfully exactly once, one with the review action
\* enabled has created or edited a comment successfully exactly once, and no
\* run publishes either more than once.
C10_PublishedExactlyOnce ==
    \A r \in Slots :
        /\ calls[r].updateOk <= 1
        /\ calls[r].createOk + calls[r].editOk <= 1
        /\ (runStatus[r] = "Completed" /\ "summary" \in actions[r]) =>
            calls[r].updateOk = 1
        /\ (runStatus[r] = "Completed" /\ "review" \in actions[r]) =>
            calls[r].createOk + calls[r].editOk = 1

\* C10, amended: a Completed run with the summary action enabled has called
\* updateDescription exactly once, successfully exactly when the stage reported
\* updated = true; one with the review action enabled has listed the comments
\* exactly once and has created or edited one comment successfully exactly when
\* the stage reported posted = true; no run publishes either more than once.
C10_PublishedAtMostOnce ==
    \A r \in Slots :
        /\ calls[r].updateOk <= 1
        /\ calls[r].createOk + calls[r].editOk <= 1
        /\ (runStatus[r] = "Completed" /\ "summary" \in actions[r]) =>
            /\ calls[r].updateOk + calls[r].updateFailed = 1
            /\ calls[r].updateOk = 1 <=> updateOut[r] = Some([updated |-> TRUE])
        /\ (runStatus[r] = "Completed" /\ "review" \in actions[r]) =>
            /\ calls[r].listOk + calls[r].listFailed = 1
            /\ calls[r].createOk + calls[r].editOk = 1 <=> Posted(r)
            /\ calls[r].createOk + calls[r].editOk
                   + calls[r].createFailed + calls[r].editFailed = calls[r].listOk

\* A Completed run with both actions enabled has updated the description and
\* created its comment.
C10_Witness ==
    \E r \in Slots :
        /\ runStatus[r] = "Completed"
        /\ actions[r] = {"summary", "review"}
        /\ calls[r].updateOk = 1
        /\ calls[r].createOk = 1

\* ------------------------------------------------------- disabled actions
SameRun(r) == runNo'[r] = runNo[r]

SummaryCalls(r) ==
    <<calls[r].summaryAgent, calls[r].updateOk, calls[r].updateFailed>>

ReviewCalls(r) ==
    <<calls[r].reviewAgent, calls[r].listOk, calls[r].listFailed, calls[r].createOk,
      calls[r].createFailed, calls[r].editOk, calls[r].editFailed>>

SummaryBranchReached(r) ==
    StartedStages(r) \cap {"prSummaryStep", "summaryNoOp"} # {}

C11_State(r) ==
    /\ "summary" \notin actions[r] =>
            /\ SummaryCalls(r) = <<0, 0, 0>>
            /\ StartedStages(r) \cap {"prSummaryStep", "updateSummaryStep"} = {}
            /\ ~IsSet(updateOut[r])
    /\ "review" \notin actions[r] =>
            /\ ReviewCalls(r) = <<0, 0, 0, 0, 0, 0, 0>>
            /\ StartedStages(r) \cap {"prReviewStep", "postReviewStep"} = {}
            /\ ~IsSet(postOut[r])
    /\ SummaryBranchReached(r) =>
            /\ calls[r].getPrDetails = 1 /\ calls[r].getPrDiff = 1
            /\ IsSet(workflowState[r].prDetails) /\ IsSet(workflowState[r].prDiff)

C11_Step ==
    /\ description' # description =>
            \E r \in Slots : SameRun(r) /\ "summary" \in actions[r]
                             /\ IsRunning(r, "updateSummaryStep")
    /\ comments' # comments =>
            \E r \in Slots : SameRun(r) /\ "review" \in actions[r]
                             /\ IsRunning(r, "postReviewStep")

\* C11: a run without "summary" among its enabled actions never invokes the
\* summary agent and never calls updatePrDescription; a run without "review"
\* never invokes the review agent and never lists, creates or edits a comment;
\* the description and the comments change only in a step of a run that has
\* the matching action enabled; and every run that reaches the summary branch
\* has fetched the metadata and the diff exactly once, whatever is enabled.
C11_DisabledPublishNothing ==
    /\ [](\A r \in Slots : C11_State(r))
    /\ [][C11_Step]_vars

C11_Witness ==
    \E r \in Slots :
        /\ runStatus[r] = "Completed"
        /\ actions[r] = {}
        /\ calls[r].getPrDetails = 1 /\ calls[r].getPrDiff = 1
        /\ stageStatus[r]["summaryNoOp"] = "Completed"
        /\ stageStatus[r]["reviewNoOp"] = "Completed"

\* ------------------------------------------------------- read after write
\* The WorkflowState keys a stage reads (workflowState.get in its execute).
Reads(s) ==
    CASE s = "getJiraTicketInfo" -> {"prDetails"}
      [] s = "prSummaryStep" -> {"prDiff", "prDetails"}
      [] s = "prReviewStep" -> {"prDiff", "prDetails"}
      [] s = "updateSummaryStep" -> {"prSummary", "prDetails"}
      [] s = "postReviewStep" -> {"prReview"}
      [] OTHER -> {}

\* The stage that writes a key (workflowState.set in its execute).
Producer(k) ==
    CASE k = "prDetails" -> "getPrDetails"
      [] k = "prDiff" -> "getPrDiff"
      [] k = "prSummary" -> "prSummaryStep"
      [] k = "prReview" -> "prReviewStep"
      [] k = "jiraTicketInfo" -> "getJiraTicketInfo"

\* C12: in every run, for every stage that has started and every key that
\* stage reads, the stage producing the key is Completed in the same run and
\* the key is set in the run's WorkflowState.
C12_ReadAfterWrite ==
    \A r \in Slots : \A s \in StartedStages(r) : \A k \in Reads(s) :
        /\ stageStatus[r][Producer(k)] = "Completed"
        /\ IsSet(workflowState[r][k])

C12_Witness ==
    \E r \in Slots :
        /\ runStatus[r] = "Running"
        /\ stageStatus[r]["postReviewStep"] = "Running"
        /\ stageStatus[r]["updateSummaryStep"] = "Completed"
        /\ stageStatus[r]["getJiraTicketInfo"] = "Completed"
        /\ IsSet(workflowState[r].prReview)

\* --------------------------------------------------------- branch stages
\* The three branch points: predicate, sub-sequence taken when it is true,
\* sub-sequence taken when it is false, and the stages declared after it.
Branches(r) ==
    {[pred |-> hasJiraConfig, then |-> {"getJiraTicketInfo"}, else |-> {"jiraNoOp"},
      after |-> {"getPrDiff"}],
     [pred |-> shouldGenerateSummary(r), then |-> {"prSummaryStep", "updateSummaryStep"},
      else |-> {"summaryNoOp"}, after |-> {"prReviewStep", "reviewNoOp"}],
     [pred |-> shouldGenerateReview(r), then |-> {"prReviewStep", "postReviewStep"},
      else |-> {"reviewNoOp"}, after |-> {}]}

C13_State(r) ==
    \A b \in Branches(r) :
        LET ranThen == StartedStages(r) \cap b.then # {}
            ranElse == StartedStages(r) \cap b.else # {}
            chosen  == IF b.pred THEN b.then ELSE b.else
            passed  == \/ StartedStages(r) \cap b.after # {}
                       \/ (b.after = {} /\ runStatus[r] = "Completed")
        IN  /\ ~(ranThen /\ ranElse)
            /\ ranThen => b.pred
            /\ ranElse => ~b.pred
            /\ passed => /\ ranThen \/ ranElse
                         /\ \A s \in chosen : stageStatus[r][s] = "Completed"

C13_Step(r) ==
    (SameRun(r) /\ runStatus[r] = "Running") =>
        /\ actions'[r] = actions[r]
        /\ IS_JIRA_CONFIGURED' = IS_JIRA_CONFIGURED

\* C13: at each of the three branch points a run never starts stages of both
\* sub-sequences; once a stage after the branch point has started (or, for the
\* last branch, the run is Completed) one sub-sequence has run and every one of
\* its stages is Completed; the sub-sequence that ran is the one the
\* configuration (IS_JIRA_CONFIGURED, PR_AGENT_ACTIONS) selects, and that
\* configuration does not change while the run is Running.
C13_BranchStages ==
    /\ [](\A r \in Slots : C13_State(r))
    /\ [][\A r \in Slots : C13_Step(r)]_vars

C13_Witness ==
    \E r \in Slots :
        /\ runStatus[r] = "Completed"
        /\ IS_JIRA_CONFIGURED
        /\ actions[r] = {"summary"}
        /\ stageStatus[r]["getJiraTicketInfo"] = "Completed"
        /\ stageStatus[r]["updateSummaryStep"] = "Completed"
        /\ stageStatus[r]["reviewNoOp"] = "Completed"
        /\ stageStatus[r]["summaryNoOp"] = "Pending"

\* ------------------------------------------------------------ no rollback
Updated(r) == IsSet(updateOut[r]) /\ Val(updateOut[r]).updated

\* The review branch of run r failed: the review agent threw, or the comment
\* publication reported an error.
ReviewBranchFailed(r) ==
    \/ stageStatus[r]["prReviewStep"] = "Failed"
    \/ IsSet(postOut[r]) /\ Val(postOut[r]).action_taken = "error"

\* What updateSummaryStep of run r passed to updatePrDescription.
PublishedBy(r) ==
    finalBody(Val(workflowState[r].prDetails).prDescription,
              formatSummaryToMarkdown(Val(workflowState[r].prSummary)))

C14_State(r) ==
    (Updated(r) /\ ReviewBranchFailed(r)) =>
        /\ description = PublishedBy(r)
        /\ calls[r].createOk = 0 /\ calls[r].editOk = 0 /\ seen[r].grew = 0
        /\ IsSet(seen[r].streamAtList) => comments = Val(seen[r].streamAtList)

C14_Step ==
    /\ \A r \in Slots : (SameRun(r) /\ Updated(r)) => description' = description
    /\ comments' # comments =>
            \E r \in Slots : SameRun(r) /\ IsSet(postOut'[r]) /\ Val(postOut'[r]).posted

\* C14: with runs one after another, when the review branch of a run fails
\* after the run's summary branch updated the description, the description is
\* still the text that run published, no step of the run changes it after the
\* update, the run has neither created nor edited a comment and the comments
\* are the ones it listed; the comments change only in a step whose stage
\* reports posted = true.
C14_NoRollbackNoPartial ==
    /\ [](\A r \in Slots : C14_State(r))
    /\ [][C14_Step]_vars

C14_Witness ==
    \E r \in Slots :
        /\ Updated(r)
        /\ description = PublishedBy(r)
        /\ description # Val(workflowState[r].prDetails).prDescription
        /\ IsSet(postOut[r]) /\ Val(postOut[r]).action_taken = "error"
        /\ calls[r].editFailed = 1
        /\ comments = Val(seen[r].streamAtList)

\* ---------------------------------------------------- WorkflowState owner
WorkflowStateKeys == {"prDetails", "jiraTicketInfo", "prDiff", "prSummary", "prReview"}

\* Every key a stage gets from the WorkflowState: those of Reads and the
\* optional jiraTicketInfo the two generating stages put into their prompt.
AllReads(s) ==
    IF s \in {"prSummaryStep", "prReviewStep"} THEN Reads(s) \cup {"jiraTicketInfo"}
    ELSE Reads(s)

\* A stage of run r that is executing gets no value set by another run.
NoCrossRunRead(r) ==
    \A s \in Stages : IsRunning(r, s) =>
        \A k \in AllReads(s) : writtenBy[r][k] \in {0, runNo[r]}

EmptyAtStart(r) ==
    (runNo[r] # 0 /\ runStatus[r] = "NotStarted") => workflowState[r] = EmptyWorkflowState

C16_OnlyOwnMarkedEdited ==
    \A r \in Slots : IsSet(seen[r].editTarget) =>
        LET id == Val(seen[r].editTarget)
            listed == Val(seen[r].streamAtList)
        IN  /\ id \in 1..Len(listed)
            /\ listed[id].id = id
            /\ listed[id].login = GITHUB_ACTIONS_BOT_LOGIN
            /\ listed[id].marked
            /\ comments[id].login = GITHUB_ACTIONS_BOT_LOGIN

\* The agent's older comment is edited although a newer comment of another
\* author carries the marker too.
C16_Witness ==
    \E r \in Slots :
        /\ IsSet(postOut[r]) /\ Val(postOut[r]).action_taken = "edited"
        /\ seen[r].editTarget = Some(1)
        /\ Len(comments) >= 2
        /\ comments[2].login = "user" /\ comments[2].marked
        /\ comments[2].created_at > comments[1].created_at

\* ------------------------------------------- shape of the published description
Preserved(d) == Stripped(UserOwned(d))

SeparatorFor(p) == IF p = <<>> THEN <<>> ELSE Divider

\* C17 as stated: the published description is the preserved content, the
\* separator (empty without preserved content, the divider otherwise), BEGIN,
\* the rendered summary and END with nothing in between; "User note\n<BEGIN>old\n<END>"
\* with summary X becomes "User note\n\n---\n\n<BEGIN>X<END>".
C17_ShapeAsStated ==
    doc.runs >= 1 =>
        /\ description = Preserved(doc.in) \o SeparatorFor(Preserved(doc.in))
                             \o <<"BEGIN">> \o <<Val(doc.art)>> \o <<"END">>
        /\ (doc.in = NoteAndOldBlock /\ doc.art = Some("X")) =>
                description = <<"u">> \o Divider \o <<"BEGIN", "X", "END">>

\* C17: the published description is the preserved content, the separator
\* (empty without preserved content, the divider otherwise), BEGIN, a line
\* break, the rendered summary, a line break and END;
\* "User note\n<BEGIN>old\n<END>" with summary X becomes
\* "User note\n\n---\n\n<BEGIN>\nX\n<END>".
C17_ShapeWithLineBreaks ==
    doc.runs >= 1 =>
        /\ description = Preserved(doc.in) \o SeparatorFor(Preserved(doc.in))
                             \o <<"BEGIN">> \o <<"n", Val(doc.art), "n">> \o <<"END">>
        /\ (doc.in = NoteAndOldBlock /\ doc.art = Some("X")) =>
                description = <<"u">> \o Divider \o <<"BEGIN", "n", "X", "n", "END">>
        /\ (Preserved(doc.in) = <<>>) => description[1] = "BEGIN"

C17_Witness ==
    /\ doc.runs = 1
    /\ doc.in = NoteAndOldBlock
    /\ doc.art = Some("X")
    /\ description = <<"u", "n", "n", "-", "-", "-", "n", "n", "BEGIN", "n", "X", "n", "END">>

\* --------------------------------------- reconciling the current description
\* The step in which run r's updatePrDescription call succeeds.
UpdateBy(r) == SameRun(r) /\ calls'[r].updateOk = calls[r].updateOk + 1

\* C18: whenever a run's publish-description stage writes the description, the
\* text it writes is the reconciliation of the description as it stands on
\* the change host at that moment with the run's rendered summary, so a line
\* the user added after the metadata stage fetched the description is kept.
C18_ReconcilesCurrent ==
    [][\A r \in Slots : UpdateBy(r) =>
          /\ description' = finalBody(description,
                                formatSummaryToMarkdown(Val(workflowState[r].prSummary)))
          /\ (\E i \in 1..Len(description) : description[i] = "e") =>
                (\E i \in 1..Len(description') : description'[i] = "e")]_vars

\* ------------------------------------------------------------ the diff filter
RECURSIVE KeptSections(_, _)
KeptSections(sections, ignorePatterns) ==
    IF sections = <<>> THEN <<>>
    ELSE (IF isMatch(sections[1].path, ignorePatterns) THEN <<>> ELSE <<sections[1]>>)
         \o KeptSections(Tail(sections), ignorePatterns)

\* C19: for every diff and every non-empty pattern list, the filtered diff is
\* the text of the file sections whose destination path matches no pattern,
\* each with every token of its text in the diff (line terminators included),
\* in the order of the diff, and nothing of the sections whose destination
\* path matches a pattern.
C19_FilterCorrect ==
    (IsSet(filterRun.out) /\ filterRun.patterns # <<>>) =>
        Val(filterRun.out) = DiffText(KeptSections(filterRun.sections, filterRun.patterns))

\* C20: filtering the filtered diff again with the same pattern list returns
\* the filtered diff.
C20_FilterIdempotent ==
    IsSet(filterRun.again) => Val(filterRun.again) = Val(filterRun.out)

\* The filter dropped one section and kept another, and has been applied to
\* its own result.
C20_Witness ==
    /\ IsSet(filterRun.again)
    /\ filterRun.patterns # <<>>
    /\ Val(filterRun.out) # <<>>
    /\ Val(filterRun.out) # filterRun.raw
    /\ Val(filterRun.again) = Val(filterRun.out)

\* ------------------------------------------------------------------- C21
\* The destination paths whose header line getPrDiff does not parse: the
\* quoted form and the form the pattern of the header refuses.
UnparsedPaths == QuotedPaths \cup CrPaths

SectionsOf(sections, path) == {i \in 1..Len(sections) : sections[i].path = path}

\* C21: whatever the patterns and the section before it, the filtered diff has
\* the header line of every file section whose header line is not parsed into
\* a destination path, as often as the diff has it.
C21_FailOpen ==
    IsSet(filterRun.out) =>
        \A path \in UnparsedPaths :
            CountOf(Val(filterRun.out), HeaderLine(path))
                = Cardinality(SectionsOf(filterRun.sections, path))

\* ------------------------------------------------------------------- C22
\* Every file section of the diff has a destination path that matches a
\* pattern (a section whose header is refused has no known path).
AllSectionsMatch(sections, ignorePatterns) ==
    \A i \in 1..Len(sections) :
        sections[i].path \notin CrPaths /\ isMatch(sections[i].path, ignorePatterns)

\* C22: the filtered diff of an empty diff is empty and is not reported as
\* truncated under any budget; without patterns the filtered diff is the raw
\* diff; when every file section matches a pattern the filtered diff is empty.
C22_EdgeCases ==
    IsSet(filterRun.out) =>
        /\ filterRun.raw = <<>> =>
              /\ Val(filterRun.out) = <<>>
              /\ \A maxChars \in 0..MaxBudget :
                    ~truncateDiffSafely(Val(filterRun.out), maxChars).wasTruncated
        /\ filterRun.patterns = <<>> => Val(filterRun.out) = filterRun.raw
        /\ AllSectionsMatch(filterRun.sections, filterRun.patterns) =>
              Val(filterRun.out) = <<>>

\* ------------------------------------------------------------------- C23
PromptKeys == {"summaryPrompt", "reviewPrompt"}

\* The file sections of the diff that getPrDiffStep stored.
StoredSections == KeptSections(filterRun.sections, filterRun.patterns)

\* The numbers of tokens of the stored diff at which one of its file sections
\* ends.
StoredSectionEnds ==
    {Min(Len(DiffText(SubSeq(StoredSections, 1, m))), Len(Val(filterRun.out))) :
        m \in 1..Len(StoredSections)}

FirstSectionLength ==
    IF StoredSections = <<>> THEN 0
    ELSE Length(SubSeq(Val(filterRun.out), 1,
                       Min(Len(SectionText(StoredSections[1])), Len(Val(filterRun.out)))))

EndsWithFullLine(text, whole) ==
    text = <<>> \/ text = whole \/ text[Len(text)] = "\n"

C24_FlagAndNote ==
    \A key \in PromptKeys :
        IsSet(filterRun[key]) =>
            (Val(filterRun[key]).clippingWarning
                <=> Length(Val(filterRun[key]).processedDiff) < Length(Val(filterRun.out)))

\* The review prompt carries the note and a clipped diff that is not empty.
C24_Witness ==
    /\ IsSet(filterRun.reviewPrompt)
    /\ Val(filterRun.reviewPrompt).clippingWarning
    /\ Val(filterRun.reviewPrompt).processedDiff # <<>>
    /\ Val(filterRun.reviewPrompt).processedDiff # Val(filterRun.out)

\* ------------------------------------------------------------------- C25
\* The artifact the publication stage works on.
ArtifactOf(stage) == IF stage = "updateSummaryStep" THEN "prSummary" ELSE "prReview"

HostCalls(c) ==
    c.updateOk + c.updateFailed + c.listOk + c.listFailed
        + c.createOk + c.createFailed + c.editOk + c.editFailed

SkipReported(r, stage) ==
    IF stage = "updateSummaryStep"
    THEN updateOut'[r] = Some([updated |-> FALSE])
    ELSE /\ IsSet(postOut'[r])
         /\ ~Val(postOut'[r]).posted
         /\ Val(postOut'[r]).action_taken = "skipped"

C25_Step(r) ==
    \A stage \in PublicationStages :
        (IsRunning(r, stage) /\ ~IsSet(workflowState[r][ArtifactOf(stage)])) =>
            /\ HostCalls(calls'[r]) = HostCalls(calls[r])
            /\ UNCHANGED hostVars
            /\ runStatus'[r] # "Failed"
            /\ stageStatus'[r][stage] = "Completed"
            /\ SkipReported(r, stage)

\* C25: a step of a publication stage that finds its artifact absent from the
\* WorkflowState makes no call to the change host, leaves the host as it is,
\* does not fail the run, completes the stage and reports that it skipped.
C25_SkipWhenAbsent == [][C25_Step(1)]_vars

\* postReviewStep has run without a review in the WorkflowState and has
\* reported that it skipped.
C25_Witness ==
    /\ ~IsSet(workflowState[1].prReview)
    /\ stageStatus[1]["postReviewStep"] = "Completed"
    /\ IsSet(postOut[1])
    /\ Val(postOut[1]).action_taken = "skipped"
    /\ calls[1] = NoCalls

\* ------------------------------------------------------------------- C26
EmptyTicketContext == [summary |-> "", description |-> ""]

C26_State(r) ==
    /\ calls[r].getJiraTicketInfo <= 1
    /\ calls[r].getJiraTicketInfo = 1 => (IS_JIRA_CONFIGURED /\ branchMatch = "ticket")

C26_Step(r) ==
    (SameRun(r) /\ IsRunning(r, "getJiraTicketInfo") /\ branchMatch # "ticket") =>
        /\ stageStatus'[r]["getJiraTicketInfo"] = "Completed"
        /\ runStatus'[r] = "Running"
        /\ calls'[r].getJiraTicketInfo = 0
        /\ workflowState'[r].jiraTicketInfo = Some(EmptyTicketContext)

\* C26: a run calls the ticket tracker at most once, and only with the ticket
\* integration configured and a branch-id pattern whose first group, matched
\* against the branch name, is not empty; with the integration configured and
\* no pattern, no match or an empty first group, the ticket stage completes
\* without a call and stores the ticket context with both texts empty.
C26_TicketTracker ==
    /\ [](\A r \in Slots : C26_State(r))
    /\ [][C26_Step(1)]_vars

\* The pattern matched the branch name with an empty first group: the stage
\* completed without a call and stored the empty context.
C26_Witness ==
    /\ IS_JIRA_CONFIGURED
    /\ branchMatch = "emptygroup"
    /\ stageStatus[1]["getJiraTicketInfo"] = "Completed"
    /\ calls[1].getJiraTicketInfo = 0
    /\ workflowState[1].jiraTicketInfo = Some(EmptyTicketContext)

\* ------------------------------------------------------------------- C27
\* The configuration has one of the errors the claim names.
ConfigError ==
    \/ env.MODEL_PROVIDER \notin {"openai", "azure", "anthropic", "google",
                                  "openai-compatible"}
    \/ ~env.providerKeys
    \/ branchMatch = "invalidregex"

C27_State ==
    ConfigError =>
        /\ \A r \in Slots :
              /\ runNo[r] = 0
              /\ runStatus[r] = "NotStarted"
              /\ started[r] = <<>>
              /\ \A s \in Stages : stageStatus[r][s] = "Pending"
              /\ calls[r] = NoCalls
        /\ configErrors = runsStarted

\* C27: with a MODEL_PROVIDER that is unset or unsupported, a missing key of
\* the selected provider or a JIRA_BRANCH_REGEX that is no regular expression,
\* every process ends while loading its configuration: no run is created, no
\* stage starts, no call to the change host, the ticket tracker or a model is
\* made, and the description and the comments stay as they are.
C27_ConfigErrorsFatal ==
    /\ []C27_State
    /\ [][ConfigError => UNCHANGED hostVars]_vars

\* Two processes have ended on a provider whose keys are missing.
C27_Witness ==
    /\ env.MODEL_PROVIDER = "azure"
    /\ ~env.providerKeys
    /\ branchMatch # "invalidregex"
    /\ configErrors = 2

\* ------------------------------------------------------------------- C28
\* C28: when every external call returns, a run that has been created and
\* started reaches Completed or Failed.
C28_Termination ==
    /\ (runNo[1] # 0 /\ runStatus[1] = "NotStarted")
            ~> (runStatus[1] \in {"Completed", "Failed"})
    /\ (runStatus[1] = "Running") ~> (runStatus[1] \in {"Completed", "Failed"})

\* A run went through every stage that makes an external call and completed.
C28_Witness ==
    /\ runStatus[1] = "Completed"
    /\ calls[1].getPrDetails = 1 /\ calls[1].getJiraTicketInfo = 1
    /\ calls[1].getPrDiff = 1
    /\ calls[1].summaryAgent = 1 /\ calls[1].reviewAgent = 1
    /\ calls[1].updateOk = 1 /\ calls[1].listOk = 1 /\ calls[1].createOk = 1

\* ------------------------------------------------------------------- C29
\* C29: a run whose comment stage listed a stream that holds, at any position,
\* a comment written by the agent's identity and carrying the marker creates
\* no comment, and when it publishes it edits a comment of that kind.
C29_WholeStreamSearched ==
    \A r \in Slots :
        (IsSet(seen[r].streamAtList) /\ BotMarkedIn(Val(seen[r].streamAtList)) # {}) =>
            /\ calls[r].createOk + calls[r].createFailed = 0
            /\ Posted(r) =>
                  /\ Val(postOut[r]).action_taken = "edited"
                  /\ \E i \in BotMarkedIn(Val(seen[r].streamAtList)) :
                        Val(seen[r].streamAtList)[i].id = Val(postOut[r]).comment_id

\* ------------------------------------------------------------------- C30
\* The stage failed on the check of its inputs, before asking its agent.
FailedOnInputs(r, stage, agent) ==
    stageStatus[r][stage] = "Failed" /\ calls[r][agent] = 0

\* C30: in a run whose diff stage has stored prDiff, the empty text included,
\* and whose metadata stage has stored prDetails, neither generating stage
\* fails on the check of its inputs.
C30_EmptyDiffIsPresent ==
    \A r \in Slots :
        (writtenBy[r].prDiff = runNo[r] /\ runNo[r] # 0
            /\ IsSet(workflowState[r].prDiff) /\ IsSet(workflowState[r].prDetails)) =>
            /\ ~FailedOnInputs(r, "prSummaryStep", "summaryAgent")
            /\ ~FailedOnInputs(r, "prReviewStep", "reviewAgent")

\* ------------------------------------------------------------------- C31
\* Key k of the WorkflowState of slot r is written in this step.
Written(r, k) ==
    \/ workflowState'[r][k] # workflowState[r][k]
    \/ writtenBy'[r][k] # writtenBy[r][k]

C31_Step(r) ==
    SameRun(r) =>
        \A k \in WorkflowStateKeys :
            Written(r, k) =>
                /\ IsRunning(r, Producer(k))
                /\ stageStatus'[r][Producer(k)] = "Completed"
                /\ writtenBy[r][k] # runNo[r]
                /\ writtenBy'[r][k] = runNo[r]
                /\ IsSet(workflowState'[r][k])

\* C31: within a run a key of the WorkflowState is written only in the step
\* in which its producing stage completes, and not after the run has written
\* it; every other step of the run leaves every key as it is, so the prDiff
\* that getPrDiffStep stored is what both generating stages read.
C31_SingleWriter == [][C31_Step(1)]_vars

\* A later run of a process has written all five keys and completed.
C31_Witness ==
    /\ runStatus[1] = "Completed"
    /\ seen[1].laterRun
    /\ \A k \in WorkflowStateKeys : writtenBy[1][k] = runNo[1]

\* ------------------------------------------------------------------- C32
\* The run in slot r has listed the comments and found a comment of its own.
FoundPrevious(r) ==
    /\ IsRunning(r, "postReviewStep")
    /\ IsSet(existingComments[r])
    /\ IsSet(previousComment(Val(existingComments[r])))

C32_Step(r) ==
    (SameRun(r) /\ FoundPrevious(r)) =>
        LET found == Val(existingComments[r])
            selected == Val(previousComment(found))
        IN  /\ isBotMarked(selected)
            /\ \A i \in 1..Len(found) :
                  isBotMarked(found[i]) => found[i].created_at <= selected.created_at
            /\ Len(comments') = Len(comments)
            /\ clock' = clock
            /\ \A i \in 1..Len(comments) :
                  /\ comments'[i].id = comments[i].id
                  /\ comments'[i].login = comments[i].login
                  /\ comments'[i].created_at = comments[i].created_at
                  /\ comments[i].id # selected.id => comments'[i] = comments[i]

\* C32: the step in which a run that found a comment of its own writes to the
\* host changes at most the body of the comment it selected, the newest of
\* those it found; the stream keeps its length, and the body, the author and
\* the creation time of every other comment and the author and the creation
\* time of the selected one stay as they are.
C32_EditTouchesOnlySelected == [][C32_Step(1)]_vars

\* A run edited its newest comment and an older marked comment of the agent
\* still has the body it had.
C32_Witness ==
    /\ calls[1].editOk = 1
    /\ \E i, j \in 1..Len(comments) :
          /\ i # j
          /\ isBotMarked(comments[i]) /\ isBotMarked(comments[j])
          /\ comments[i].review = "o"
          /\ comments[j].review = "R"
          /\ comments[i].created_at < comments[j].created_at

\* ------------------------------------------------------------------- C33
\* The positions, in a listed sequence, of the agent's marked comments with
\* the latest creation time among the agent's marked comments.
LatestOwn(listed) ==
    LET own == BotMarkedIn(listed)
    IN  {i \in own : \A j \in own : listed[j].created_at <= listed[i].created_at}

\* The comment the listed sequence determines: the first of LatestOwn.
Determined(listed) ==
    listed[CHOOSE i \in LatestOwn(listed) : \A j \in LatestOwn(listed) : i <= j]

\* C33: the comment a run edits is a function of the sequence it listed: the
\* agent's marked comment with the latest creation time and, among several
\* with that time, the one that comes first in the listed sequence; a run
\* that listed a sequence with such a comment and wrote to the host edited.
C33_SelectionDetermined ==
    \A r \in Slots :
        /\ IsSet(seen[r].editTarget) =>
              /\ IsSet(existingComments[r])
              /\ LatestOwn(Val(existingComments[r])) # {}
              /\ Val(seen[r].editTarget) = Determined(Val(existingComments[r])).id
        /\ (IsSet(existingComments[r]) /\ IsSet(postOut[r])
                /\ BotMarkedIn(Val(existingComments[r])) # {}) =>
              IsSet(seen[r].editTarget)

\* A run listed two of the agent's marked comments with the same creation
\* time and edited the one listed first.
C33_Witness ==
    /\ IsSet(existingComments[1])
    /\ Cardinality(LatestOwn(Val(existingComments[1]))) = 2
    /\ calls[1].editOk = 1
    /\ seen[1].editTarget = Some(Val(existingComments[1])[1].id)

\* ------------------------------------------------------------------- C34
C34_Report(r) ==
    LET c == calls[r]
        out == Val(postOut[r])
        reported(action) == IsSet(postOut[r]) /\ out.action_taken = action
    IN  /\ reported("edited") <=> c.editOk = 1
        /\ reported("edited") =>
              (out.posted /\ seen[r].editTarget = Some(out.comment_id))
        /\ reported("created") <=> c.createOk = 1
        /\ reported("created") => out.posted
        /\ reported("skipped") <=>
              (stageStatus[r]["postReviewStep"] = "Completed"
                  /\ ~IsSet(workflowState[r].prReview))
        /\ reported("skipped") => (~out.posted /\ HostCalls(c) = 0)
        /\ reported("error") <=> c.listFailed + c.editFailed + c.createFailed > 0
        /\ reported("error") => ~out.posted
        /\ IsSet(postOut[r]) <=> stageStatus[r]["postReviewStep"] = "Completed"
        /\ IsSet(postOut[r]) => out.action_taken \in {"edited", "created", "skipped", "error"}

\* C34: postReviewStep returns edited, posted and the id of the edited comment
\* exactly when its edit call succeeded; created and posted exactly when its
\* create call succeeded; skipped and not posted exactly when it found no
\* review in the WorkflowState, and then it made no host call; error and not
\* posted exactly when its list, edit or create call failed.
C34_ReportsWhatItDid == \A r \in Slots : C34_Report(r)

\* The list call succeeded, the edit call failed and the stage reported error.
C34_Witness ==
    /\ calls[1].listOk = 1
    /\ calls[1].editFailed = 1
    /\ IsSet(postOut[1])
    /\ Val(postOut[1]).action_taken = "error"
    /\ ~Val(postOut[1]).posted

\* ------------------------------------------------------------------- C35
\* The ticket branch left nothing to put into a prompt: jiraTicketInfo was
\* never set (jiraNoOp) or holds the empty ticket context.
NothingFromTicket(ws) ==
    ~IsSet(ws.jiraTicketInfo) \/ ws.jiraTicketInfo = Some(EmptyTicketContext)

\* The message without ticket context for the metadata and diff of ws.
MessageWithoutTicket(ws) ==
    [prDetails |-> Val(ws.prDetails), jiraContext |-> <<>>, originalDiff |-> Val(ws.prDiff)]

C35_Prompt(r, key) ==
    LET ws == workflowState[r]
        sent == seen[r].userMessageContent[key]
    IN  IsSet(sent) =>
            /\ NothingFromTicket(ws) => Val(sent) = MessageWithoutTicket(ws)
            /\ Val(sent).jiraContext # <<>> =>
                  /\ IsSet(ws.jiraTicketInfo)
                  /\ Val(ws.jiraTicketInfo).summary # ""
                  /\ Val(ws.jiraTicketInfo).description # ""
                  /\ Val(sent).jiraContext = <<Val(ws.jiraTicketInfo).summary,
                                                Val(ws.jiraTicketInfo).description>>

C35_Continuation(r) ==
    LET ws == workflowState[r]
    IN  /\ \A s \in {"getPrDiff", "prSummaryStep", "updateSummaryStep",
                      "prReviewStep", "postReviewStep"} :
              (seen[r].failedAt = Some(s) /\ ~IsSet(ws.jiraTicketInfo)) =>
                  \/ calls[r].getPrDiff + calls[r].summaryAgent + calls[r].reviewAgent > 0
                  \/ diffMissing(ws)
        /\ (IsSet(ws.prSummary) /\ writtenBy[r].prSummary = runNo[r]) =>
              IsSet(seen[r].userMessageContent.prSummary)
        /\ (IsSet(ws.prReview) /\ writtenBy[r].prReview = runNo[r]) =>
              IsSet(seen[r].userMessageContent.prReview)

\* C35: the message prSummaryStep and prReviewStep send for given prDetails
\* and prDiff is the same whether jiraTicketInfo was never set (jiraNoOp) or
\* holds the empty ticket context, the stages after the ticket branch never
\* fail for want of jiraTicketInfo, and the message has ticket context only
\* when the summary and the description of the ticket are both non-empty.
C35_NoOpIndistinguishable ==
    \A r \in Slots :
        /\ \A key \in {"prSummary", "prReview"} : C35_Prompt(r, key)
        /\ C35_Continuation(r)

\* A run that took jiraNoOp completed after both agents were sent a message
\* without ticket context.
C35_Witness ==
    /\ ~IS_JIRA_CONFIGURED
    /\ stageStatus[1]["jiraNoOp"] = "Completed"
    /\ ~IsSet(workflowState[1].jiraTicketInfo)
    /\ runStatus[1] = "Completed"
    /\ \A key \in {"prSummary", "prReview"} :
          /\ IsSet(seen[1].userMessageContent[key])
          /\ Val(seen[1].userMessageContent[key]) = MessageWithoutTicket(workflowState[1])

====
